---- MODULE Spec2Model ----
(***************************************************************************)
(* Model of the Orca/Lexia starter kit: the in-memory ConversationManager  *)
(* (conversation_manager.js) and the processMessage handler (main.js) with *)
(* the function handler (function_handler.js).                             *)
(*                                                                         *)
(* Text is modelled as a sequence of one-character strings, so that string *)
(* concatenation is \o and the empty string is << >>.                      *)
(***************************************************************************)
EXTENDS Integers, Sequences, FiniteSets, TLC

\* ------------------------------------------------------------------ bounds
\* Largest maxHistory a store is constructed with in the store specifications.
MaxHist == 2
\* Number of addMessage calls made through the store API in a behaviour.
MaxAppends == 4
\* Largest number of elements a caller pushes onto an array it was handed.
MaxCallerLen == 2
\* Number of chunks a completion stream delivers before it ends or throws.
MaxChunks == 3
\* Chunks one completion stream delivers in the fair specification and in the
\* specification with files.
MaxLiveChunks == 2

\* Chunks each of two concurrent completion streams delivers.
MaxPairChunks == 1

\* ------------------------------------------------------------------ domains
Threads == {"t1", "t2"}
\* The (role, content) pairs handed to addMessage through the store API.
Turns == {<<"user", <<"a">>>>, <<"assistant", <<"b">>>>}
\* A message a caller fabricates and writes into an array it holds.
ForeignMessage == [role |-> "user", content |-> <<"x">>, timestamp |-> 0]

VARIABLES
    maxHistory,     \* this.maxHistory
    conversations,  \* this.conversations: a Map, threadId -> array of messages
    now,            \* the clock read by _getTimestamp
    held,           \* the array a caller of getHistory was last handed
    log,            \* history variable: per thread, messages appended since its last clear
    cleared,        \* history variable: threads on which clearHistory was ever called
    \* processMessage, one entry per request
    pc,             \* where the request is: off, ready, create, streaming, tools, done
    data,           \* the ChatMessage the request was called with
    messages,       \* the message list built for the completion client
    fullResponse,   \* let fullResponse
    usageInfo,      \* let usageInfo
    functionCalls,  \* const functionCalls
    toolIdx,        \* processFunctionCalls: position of its for loop (1-based)
    combinedResult, \* processFunctionCalls: let combinedResult
    generatedFileUrl, \* processFunctionCalls: let generatedFileUrl
    sink,           \* the lexia.streamChunk calls made, in order
    completed,      \* the lexia.completeResponse calls made, in order
    errors,         \* the lexia.sendError calls made, in order
    consumed,       \* history variable: the chunks the stream delivered, in order
    opened,         \* history variable: number of completions.create calls
    executorCalls,  \* history variable: number of processFunctionCalls calls
    executed,       \* history variable: the executeFunctionCall calls made, in order
    appendedBy,     \* history variable: roles of the turns the request appended
    trace           \* history variable: the calls processMessage made, in order

storeVars == <<maxHistory, conversations, now, held, log, cleared>>
reqVars == <<pc, data, messages, fullResponse, usageInfo, functionCalls, toolIdx,
             combinedResult, generatedFileUrl, sink, completed, errors, consumed,
             opened, executorCalls, executed, appendedBy, trace>>
vars == <<maxHistory, conversations, now, held, log, cleared,
          pc, data, messages, fullResponse, usageInfo, functionCalls, toolIdx,
          combinedResult, generatedFileUrl, sink, completed, errors, consumed,
          opened, executorCalls, executed, appendedBy, trace>>

\* ------------------------------------------------------------------ helpers
Min(a, b) == IF a <= b THEN a ELSE b

Last(s) == s[Len(s)]

\* The last n elements of s (all of s when n >= Len(s)).
LastN(s, n) == SubSeq(s, Len(s) - Min(n, Len(s)) + 1, Len(s))

\* x is a (not necessarily contiguous) subsequence of s.
RECURSIVE IsSubSeq(_, _)
IsSubSeq(x, s) ==
    IF x = << >> THEN TRUE
    ELSE IF s = << >> THEN FALSE
    ELSE IF Head(x) = Head(s) THEN IsSubSeq(Tail(x), Tail(s))
    ELSE IsSubSeq(x, Tail(s))

\* ------------------------------------------------------------------ Map
\* A Map is a function whose domain is its key set.
EmptyMap == [k \in {} |-> << >>]

MapHas(map, k) == k \in DOMAIN map

MapSet(map, k, v) == [x \in DOMAIN map \cup {k} |-> IF x = k THEN v ELSE map[x]]

MapDelete(map, k) == [x \in DOMAIN map \ {k} |-> map[x]]

\* ------------------------------------------------------------------ ConversationManager
\* constructor(maxHistory): an empty Map.
ConversationManager(mh) ==
    /\ maxHistory = mh
    /\ conversations = EmptyMap

\* _getTimestamp(): the current time.
getTimestamp == now

\* Mutant of Shift: two elements are removed where there are two.
Shift_Two(a) == IF Len(a) >= 2 THEN Tail(Tail(a)) ELSE Tail(a)

\* Array.prototype.shift on a non-empty array: removes the first element.
Shift(a) == Tail(a)

\* Mutant of MaintainLimit: the limit is never enforced.
MaintainLimit_NoEvict(threadHistory) == threadHistory

\* Mutant of MaintainLimit: pop() in place of shift(), the newest message goes.
MaintainLimit_Pop(threadHistory) ==
    IF Len(threadHistory) > maxHistory
    THEN SubSeq(threadHistory, 1, Len(threadHistory) - 1)
    ELSE threadHistory

\* Mutant of MaintainLimit: >= in place of >, a full thread loses a message
\* one append too early.
MaintainLimit_OffByOne(threadHistory) ==
    IF Len(threadHistory) >= maxHistory
    THEN Shift(threadHistory)
    ELSE threadHistory

\* if (threadHistory.length > this.maxHistory) threadHistory.shift();
MaintainLimit(threadHistory) ==
    IF Len(threadHistory) > maxHistory
    THEN Shift(threadHistory)
    ELSE threadHistory

\* Mutant of Pushed: the message is put in front (unshift instead of push).
Pushed_Front(threadId, message) ==
    LET existing == IF ~MapHas(conversations, threadId)
                    THEN << >>
                    ELSE conversations[threadId]
    IN  MaintainLimit(<<message>> \o existing)

\* The array addMessage leaves under threadId.
Pushed(threadId, message) ==
    LET existing == IF ~MapHas(conversations, threadId)
                    THEN << >>
                    ELSE conversations[threadId]
    IN  MaintainLimit(Append(existing, message))

NewMessage(role, content) ==
    [role |-> role, content |-> content, timestamp |-> getTimestamp]

\* addMessage(threadId, role, content)
addMessage(threadId, role, content) ==
    /\ conversations' =
         MapSet(conversations, threadId, Pushed(threadId, NewMessage(role, content)))
    /\ now' = now + 1
    /\ log' = [log EXCEPT ![threadId] = Append(@, NewMessage(role, content))]
    /\ UNCHANGED <<maxHistory, cleared>>

\* The value of getHistory(threadId): this.conversations.get(threadId) || [].
\* An array is truthy even when empty, so a stored array is returned itself.
getHistory(threadId) ==
    IF MapHas(conversations, threadId) THEN conversations[threadId] ELSE << >>

\* What the caller of getHistory(threadId) holds afterwards: the stored array
\* itself ("store"), or a fresh array literal no Map entry refers to ("own").
Returned(threadId) ==
    IF MapHas(conversations, threadId)
    THEN [ref |-> "store", key |-> threadId, arr |-> << >>]
    ELSE [ref |-> "own", key |-> threadId, arr |-> << >>]

\* The contents of the array the caller holds.
HeldArray ==
    IF held.ref = "store" THEN conversations[held.key] ELSE held.arr

\* Mutant of clearHistory: this.conversations.clear().
clearHistory_All(threadId) ==
    /\ conversations' = EmptyMap
    /\ log' = [t \in Threads |-> << >>]
    /\ cleared' = cleared \cup {threadId}
    /\ UNCHANGED <<maxHistory, now>>

\* Mutant of clearHistory: this.conversations.set(threadId, []).
clearHistory_Truncate(threadId) ==
    /\ conversations' = MapSet(conversations, threadId, << >>)
    /\ log' = [log EXCEPT ![threadId] = << >>]
    /\ cleared' = cleared \cup {threadId}
    /\ UNCHANGED <<maxHistory, now>>

\* Mutant of clearHistory: an absent key is created instead.
clearHistory_Toggle(threadId) ==
    /\ conversations' = IF MapHas(conversations, threadId)
                        THEN MapDelete(conversations, threadId)
                        ELSE MapSet(conversations, threadId, << >>)
    /\ log' = [log EXCEPT ![threadId] = << >>]
    /\ cleared' = cleared \cup {threadId}
    /\ UNCHANGED <<maxHistory, now>>

\* clearHistory(threadId): this.conversations.delete(threadId).
clearHistory(threadId) ==
    /\ conversations' = MapDelete(conversations, threadId)
    /\ log' = [log EXCEPT ![threadId] = << >>]
    /\ cleared' = cleared \cup {threadId}
    /\ UNCHANGED <<maxHistory, now>>

\* Mutant of getAllThreads: the keys that were cleared are listed too.
getAllThreads_Ever == DOMAIN conversations \cup cleared

\* getAllThreads(): the keys of the Map.
getAllThreads == DOMAIN conversations

\* getThreadCount(): the size of the Map.
getThreadCount == Cardinality(getAllThreads)

\* An array deleted from the Map stays alive for a caller that holds it.
Detach(threadId) ==
    IF held.ref = "store" /\ held.key = threadId
    THEN [ref |-> "own", key |-> threadId, arr |-> conversations[threadId]]
    ELSE held

\* ------------------------------------------------------------------ store API steps
AddMessage ==
    /\ now < MaxAppends
    /\ \E t \in Threads, m \in Turns : addMessage(t, m[1], m[2])
    /\ UNCHANGED <<held, reqVars>>

\* Mutant of GetHistory: an unknown key is given an empty array in the Map.
GetHistory_Create ==
    /\ \E t \in Threads :
        /\ conversations' = IF MapHas(conversations, t) THEN conversations
                            ELSE MapSet(conversations, t, << >>)
        /\ held' = [ref |-> "store", key |-> t, arr |-> << >>]
    /\ UNCHANGED <<maxHistory, now, log, cleared, reqVars>>

GetHistory ==
    /\ \E t \in Threads : held' = Returned(t)
    /\ UNCHANGED <<maxHistory, conversations, now, log, cleared, reqVars>>

ClearHistory ==
    /\ \E t \in Threads :
        /\ clearHistory(t)
        /\ held' = Detach(t)
    /\ UNCHANGED reqVars

\* The caller changes the array it was handed: push, pop or element assignment.
CallerPush ==
    /\ held.ref # "none"
    /\ Len(HeldArray) < MaxCallerLen
    /\ IF held.ref = "store"
       THEN /\ conversations' =
                 [conversations EXCEPT ![held.key] = Append(@, ForeignMessage)]
            /\ UNCHANGED held
       ELSE /\ held' = [held EXCEPT !.arr = Append(@, ForeignMessage)]
            /\ UNCHANGED conversations
    /\ UNCHANGED <<maxHistory, now, log, cleared, reqVars>>

CallerPop ==
    /\ held.ref # "none"
    /\ HeldArray # << >>
    /\ IF held.ref = "store"
       THEN /\ conversations' =
                 [conversations EXCEPT ![held.key] = SubSeq(@, 1, Len(@) - 1)]
            /\ UNCHANGED held
       ELSE /\ held' = [held EXCEPT !.arr = SubSeq(@, 1, Len(@) - 1)]
            /\ UNCHANGED conversations
    /\ UNCHANGED <<maxHistory, now, log, cleared, reqVars>>

CallerReplace ==
    /\ held.ref # "none"
    /\ HeldArray # << >>
    /\ IF held.ref = "store"
       THEN /\ conversations' =
                 [conversations EXCEPT ![held.key] = [@ EXCEPT ![1] = ForeignMessage]]
            /\ UNCHANGED held
       ELSE /\ held' = [held EXCEPT !.arr = [@ EXCEPT ![1] = ForeignMessage]]
            /\ UNCHANGED conversations
    /\ UNCHANGED <<maxHistory, now, log, cleared, reqVars>>

CallerMutate == CallerPush \/ CallerPop \/ CallerReplace

\* ------------------------------------------------------------------ JSON over the model's alphabet
\* Argument text is written over the characters { } " 1. Over this alphabet
\* the complete JSON texts are: the numbers 1, 11, ...; a string, two quotes
\* around characters that are not quotes; and the empty object {}.
Quote == "\""

IsNumberText(text) ==
    /\ text # << >>
    /\ \A i \in 1..Len(text) : text[i] = "1"

IsStringText(text) ==
    /\ Len(text) >= 2
    /\ text[1] = Quote
    /\ text[Len(text)] = Quote
    /\ \A i \in 2..(Len(text) - 1) : text[i] # Quote

IsObjectText(text) == text = <<"{", "}">>

\* JSON.parse(text): the value, or a SyntaxError (ok = FALSE).
JSONParse(text) ==
    IF IsObjectText(text) THEN [ok |-> TRUE, type |-> "object", text |-> << >>]
    ELSE IF IsNumberText(text) THEN [ok |-> TRUE, type |-> "number", text |-> text]
    ELSE IF IsStringText(text)
    THEN [ok |-> TRUE, type |-> "string", text |-> SubSeq(text, 2, Len(text) - 1)]
    ELSE [ok |-> FALSE, type |-> "SyntaxError", text |-> << >>]

\* JSON.stringify(value, null, 2)
JSONStringify(value) ==
    IF value.type = "object" THEN <<"{", "}">>
    ELSE IF value.type = "string" THEN <<Quote>> \o value.text \o <<Quote>>
    ELSE value.text

\* currentArgs.endsWith('"') || currentArgs.endsWith('}') || currentArgs.endsWith(']')
EndsLikeJSON(text) ==
    /\ text # << >>
    /\ text[Len(text)] \in {Quote, "}", "]"}

\* ------------------------------------------------------------------ requests and streams
Reqs == {"r1", "r2"}

\* maxHistory of the store main.js constructs.
DefaultMaxHistory == 10

\* vars.get("OPENAI_API_KEY"): absent, the empty string, or a key.
ApiKeys == {[present |-> FALSE, value |-> << >>],
            [present |-> TRUE, value |-> << >>],
            [present |-> TRUE, value |-> <<"sk">>]}

\* !openaiApiKey
Falsy(v) == ~v.present \/ v.value = << >>

\* The texts processMessage and the function handler build from templates are
\* single symbols of the text.
MissingKeyMsg == <<"<missing-key>">>
DefaultPrompt == <<"<helpful-assistant>">>
ParseErrorResult == <<"<function-execution-error:json>">>
ImageErrorResult == <<"<function-execution-error:dalle>">>
UnknownFunctionResult == <<"<function-error:unknown>">>
ImageResult(url) == <<"<image-generated>", url>>

ToolNames == {"generate_image", "other_tool"}

\* The argument fragments a delta carries.
ArgFragments == {<<"{">>, <<"}">>, <<"1">>, <<Quote>>}

\* A delta of chunk.choices[0].delta.tool_calls. A field the delta does not
\* carry is "undefined"; arguments are << >> when absent or empty, which the
\* handler does not tell apart.
Delta(index, hasFunction, id, name, arguments) ==
    [index |-> index, hasFunction |-> hasFunction, id |-> id, name |-> name,
     arguments |-> arguments]

IdOf(index) == IF index = 0 THEN "c0" ELSE "c1"

\* The first delta of a tool call: id and function name, arguments empty or begun.
IdentifyingDeltas ==
    {Delta(i, TRUE, IdOf(i), n, << >>) : i \in 0..1, n \in ToolNames}
    \cup {Delta(0, TRUE, IdOf(0), "generate_image", <<"{">>),
          Delta(1, TRUE, IdOf(1), "generate_image", <<"1">>)}

\* A later delta: an argument fragment only.
FragmentDeltas ==
    {Delta(0, TRUE, "undefined", "undefined", a) : a \in ArgFragments}
    \cup {Delta(1, TRUE, "undefined", "undefined", a) : a \in {<<"}">>, <<"1">>}}

\* A delta without a function object.
BareDeltas == {Delta(0, FALSE, IdOf(0), "undefined", << >>)}

Chunk(hasContent, content, tool_calls, usage) ==
    [hasContent |-> hasContent, content |-> content, tool_calls |-> tool_calls,
     usage |-> usage]

\* The chunks a completion stream delivers.
Chunks ==
    {Chunk(TRUE, c, << >>, "null") : c \in {<< >>, <<"h">>, <<"w">>}}
    \cup {Chunk(FALSE, << >>, <<d>>, "null") :
            d \in IdentifyingDeltas \cup FragmentDeltas \cup BareDeltas}
    \cup {Chunk(FALSE, << >>,
                <<Delta(0, TRUE, "c0", "generate_image", << >>),
                  Delta(1, TRUE, "c1", "other_tool", <<"1">>)>>, "null")}
    \cup {Chunk(FALSE, << >>, << >>, u) : u \in {"u1", "u2"}}

\* A lexia.streamChunk call: the kind of text and the text.
Note(kind, text) == [kind |-> kind, text |-> text]

\* ------------------------------------------------------------------ agent_utils
\* formatSystemPrompt(systemMessage, projectSystemMessage); << >> is null.
formatSystemPrompt(systemMessage, projectSystemMessage) ==
    LET basePrompt == IF systemMessage # << >> THEN systemMessage ELSE DefaultPrompt
    IN  IF projectSystemMessage # << >>
        THEN basePrompt \o <<"<project-context>">> \o projectSystemMessage
        ELSE basePrompt

\* Mutant of formatMessagesForOpenAI: the history is listed newest first.
formatMessagesForOpenAI_Reversed(systemPrompt, conversationHistory, currentMessage) ==
    <<[role |-> "system", content |-> systemPrompt]>>
    \o [i \in 1..Len(conversationHistory) |->
          [role |-> conversationHistory[Len(conversationHistory) + 1 - i].role,
           content |-> conversationHistory[Len(conversationHistory) + 1 - i].content]]
    \o <<[role |-> "user", content |-> currentMessage]>>

\* formatMessagesForOpenAI(systemPrompt, conversationHistory, currentMessage)
formatMessagesForOpenAI(systemPrompt, conversationHistory, currentMessage) ==
    <<[role |-> "system", content |-> systemPrompt]>>
    \o [i \in 1..Len(conversationHistory) |->
          [role |-> conversationHistory[i].role,
           content |-> conversationHistory[i].content]]
    \o <<[role |-> "user", content |-> currentMessage]>>

\* ------------------------------------------------------------------ processMessage: attached files
\* data.file_type === 'pdf' && data.file_url
HasPDF(d) == d.file_type = "pdf" /\ d.file_url # << >>

\* else if (data.file_type === 'image' && data.file_url)
HasImage(d) == ~HasPDF(d) /\ d.file_type = "image" /\ d.file_url # << >>

\* if (messages.length > 0 && last.role === 'user') last.content = content
ReplaceLastContent(msgs, content) ==
    IF msgs # << >> /\ Last(msgs).role = "user"
    THEN [msgs EXCEPT ![Len(msgs)].content = content]
    ELSE msgs

\* The message text followed by "\n\nPDF Content:\n" and the text of the PDF.
AddPDF(msgs, message, pdfText) ==
    ReplaceLastContent(msgs, message \o <<"<pdf-content>">> \o pdfText)

\* The content becomes the two-part array [{type: "text", text}, {type:
\* "image_url", image_url: {url}}], written here as one marked text.
AddImage(msgs, url) ==
    IF msgs = << >> THEN msgs
    ELSE ReplaceLastContent(msgs, <<"<text-part>">> \o Last(msgs).content
                                  \o <<"<image-url-part>">> \o url)

\* What the download and the extraction of a PDF can give: a failure of
\* axios.get, of pdfParse or of the tokenizer, or the text of the PDF.
PdfOutcomes ==
    {[ok |-> FALSE, stage |-> st, text |-> << >>] :
        st \in {"axios.get", "pdfParse", "encoding"}}
    \cup {[ok |-> TRUE, stage |-> "done", text |-> t] : t \in {<< >>, <<"p">>}}

\* ------------------------------------------------------------------ processMessage: the stream loop
\* The kinds of text the loop hands to lexia.streamChunk.
LoopKinds == {"text", "calling", "params"}

\* The loop's variables, the notes the sink has received so far, whether an
\* error was thrown out of the loop body, the kinds of note for which
\* lexia.streamChunk rejects while this chunk is handled, and the rejections
\* that happened.
LoopState(r) ==
    [fullResponse |-> fullResponse[r], functionCalls |-> functionCalls[r],
     usageInfo |-> usageInfo[r], sink |-> sink[r], threw |-> FALSE,
     fails |-> {}, rejected |-> << >>]

\* The loop state when streamChunk rejects the notes of the kinds in fails.
LoopStateFailing(r, fails) == [LoopState(r) EXCEPT !.fails = fails]

\* Mutant of HandleContent: the fragment is put in front of the text.
HandleContent_Prepend(st, chunk) ==
    IF chunk.hasContent /\ chunk.content # << >>
    THEN [st EXCEPT !.fullResponse = chunk.content \o @,
                    !.sink = Append(@, Note("text", chunk.content))]
    ELSE st

\* if (chunk.choices[0]?.delta?.content) { fullResponse += content; await streamChunk }
\* The await is outside every inner try: a rejection leaves the loop.
HandleContent(st, chunk) ==
    IF chunk.hasContent /\ chunk.content # << >>
    THEN IF "text" \in st.fails
         THEN [st EXCEPT !.fullResponse = @ \o chunk.content,
                         !.rejected = Append(@, "text"),
                         !.threw = TRUE]
         ELSE [st EXCEPT !.fullResponse = @ \o chunk.content,
                         !.sink = Append(@, Note("text", chunk.content))]
    ELSE st

\* Mutant of InitializeCall: the announcement is put in front of the
\* notifications already sent.
InitializeCall_AnnounceFirst(st, toolCall) ==
    IF Len(st.functionCalls) <= toolCall.index
    THEN [st EXCEPT !.functionCalls =
                        Append(@, [id |-> toolCall.id, name |-> toolCall.name,
                                   arguments |-> << >>]),
                    !.sink = <<Note("calling", <<toolCall.name>>)>> \o @]
    ELSE st

\* if (functionCalls.length <= toolCall.index) { functionCalls.push(...); await streamChunk }
\* The await is outside every inner try: a rejection leaves the loop.
InitializeCall(st, toolCall) ==
    IF Len(st.functionCalls) <= toolCall.index
    THEN LET pushed == [st EXCEPT !.functionCalls =
                            Append(@, [id |-> toolCall.id, name |-> toolCall.name,
                                       arguments |-> << >>])]
         IN  IF "calling" \in st.fails
             THEN [pushed EXCEPT !.rejected = Append(@, "calling"), !.threw = TRUE]
             ELSE [pushed EXCEPT !.sink = Append(@, Note("calling", <<toolCall.name>>))]
    ELSE st

\* Mutant of StreamProgress: the text is parsed whatever it ends with.
StreamProgress_ParseOnly(st, currentArgs) ==
    IF JSONParse(currentArgs).ok
    THEN [st EXCEPT !.sink =
                        Append(@, Note("params", JSONStringify(JSONParse(currentArgs))))]
    ELSE st

\* try { if (currentArgs.endsWith(...)) { JSON.parse; await streamChunk } } catch {}
\* The await is inside the try: a rejection is caught and dropped.
StreamProgress(st, currentArgs) ==
    IF EndsLikeJSON(currentArgs) /\ JSONParse(currentArgs).ok
    THEN IF "params" \in st.fails
         THEN [st EXCEPT !.rejected = Append(@, "params")]
         ELSE [st EXCEPT !.sink =
                   Append(@, Note("params", JSONStringify(JSONParse(currentArgs))))]
    ELSE st

\* Mutant of AccumulateArguments: the fragment replaces the accumulated text.
AccumulateArguments_Overwrite(st, toolCall) ==
    IF toolCall.arguments = << >> THEN st
    ELSE IF toolCall.index + 1 > Len(st.functionCalls) THEN [st EXCEPT !.threw = TRUE]
    ELSE LET slot == toolCall.index + 1
             st2 == [st EXCEPT !.functionCalls[slot].arguments = toolCall.arguments]
         IN  StreamProgress(st2, st2.functionCalls[slot].arguments)

\* if (toolCall.function.arguments) { functionCalls[toolCall.index].function.arguments += ... }
\* functionCalls[toolCall.index] is undefined when the index is past the end:
\* a TypeError, thrown outside the inner try.
AccumulateArguments(st, toolCall) ==
    IF toolCall.arguments = << >> THEN st
    ELSE IF toolCall.index + 1 > Len(st.functionCalls) THEN [st EXCEPT !.threw = TRUE]
    ELSE LET slot == toolCall.index + 1
             st2 == [st EXCEPT !.functionCalls[slot].arguments = @ \o toolCall.arguments]
         IN  StreamProgress(st2, st2.functionCalls[slot].arguments)

\* The body of for (const toolCall of chunk.choices[0].delta.tool_calls).
HandleToolCall(st, toolCall) ==
    IF toolCall.hasFunction
    THEN LET initialized == InitializeCall(st, toolCall)
         IN  IF initialized.threw THEN initialized
             ELSE AccumulateArguments(initialized, toolCall)
    ELSE st

RECURSIVE HandleToolCalls(_, _)
HandleToolCalls(st, tool_calls) ==
    IF tool_calls = << >> \/ st.threw THEN st
    ELSE HandleToolCalls(HandleToolCall(st, Head(tool_calls)), Tail(tool_calls))

\* Mutant of HandleUsage: the first usage report is kept.
HandleUsage_KeepFirst(st, chunk) ==
    IF ~st.threw /\ chunk.usage # "null" /\ st.usageInfo = "null"
    THEN [st EXCEPT !.usageInfo = chunk.usage]
    ELSE st

\* if (chunk.usage) usageInfo = chunk.usage
HandleUsage(st, chunk) ==
    IF ~st.threw /\ chunk.usage # "null"
    THEN [st EXCEPT !.usageInfo = chunk.usage]
    ELSE st

\* The body of for await (const chunk of stream).
HandleChunk(st, chunk) ==
    HandleUsage(HandleToolCalls(HandleContent(st, chunk), chunk.tool_calls), chunk)

\* ------------------------------------------------------------------ function_handler
\* What DALL-E answers: a failure, or the URL of the image.
DalleOutcomes == {"fail", "url1", "url2"}

\* executeGenerateImage(functionCall, orcaHandler, data): the result text, the
\* file URL and the streamChunk calls made. Every failure in it is caught and
\* returned as result text.
executeGenerateImage(functionCall, dalle) ==
    IF ~JSONParse(functionCall.arguments).ok
    THEN [result |-> ParseErrorResult, fileUrl |-> "null", notes |-> << >>]
    ELSE IF dalle = "fail"
    THEN [result |-> ImageErrorResult, fileUrl |-> "null",
          notes |-> <<Note("executing", <<"generate_image">>),
                      Note("loading.start", << >>)>>]
    ELSE [result |-> ImageResult(dalle), fileUrl |-> dalle,
          notes |-> <<Note("executing", <<"generate_image">>),
                      Note("loading.start", << >>),
                      Note("loading.end", << >>),
                      Note("completed", <<"generate_image">>),
                      Note("result", ImageResult(dalle))>>]

\* Mutant of executeFunctionCall: every name is dispatched to the image
\* generator.
executeFunctionCall_AnyName(functionCall, dalle) ==
    LET out == executeGenerateImage(functionCall, dalle)
    IN  [out EXCEPT !.notes = <<Note("processing", <<functionCall.name>>)>> \o @]

\* executeFunctionCall(functionCall, orcaHandler, data)
executeFunctionCall(functionCall, dalle) ==
    LET processing == <<Note("processing", <<functionCall.name>>)>>
    IN  IF functionCall.name = "generate_image"
        THEN LET out == executeGenerateImage(functionCall, dalle)
             IN  [out EXCEPT !.notes = processing \o @]
        ELSE [result |-> UnknownFunctionResult, fileUrl |-> "null",
              notes |-> processing]

\* ------------------------------------------------------------------ processMessage
\* Variables of the store that processMessage leaves alone.
UNCHANGED_Store == UNCHANGED <<maxHistory, conversations, now, held, log, cleared>>

\* Mutant of SendError: the catch block swallows the error without reporting it.
SendError_Swallow(r, what) ==
    /\ pc' = [pc EXCEPT ![r] = "done"]
    /\ UNCHANGED <<errors, trace>>

\* lexia.sendError(data, ...) in the catch block; the request is over.
SendError(r, what) ==
    /\ errors' = [errors EXCEPT ![r] = Append(@, what)]
    /\ trace' = [trace EXCEPT ![r] = Append(@, "sendError")]
    /\ pc' = [pc EXCEPT ![r] = "done"]

\* The user turn processMessage stores.
UserTurn(r) == NewMessage("user", data[r].message)

\* Mutant of ProcessMessageStart: the user turn is stored before the key is
\* looked at.
ProcessMessageStart_StoreFirst(r) ==
    /\ pc[r] = "ready"
    /\ addMessage(data[r].thread_id, "user", data[r].message)
    /\ appendedBy' = [appendedBy EXCEPT ![r] = Append(@, "user")]
    /\ IF Falsy(data[r].apiKey)
       THEN /\ sink' = [sink EXCEPT ![r] = Append(@, Note("notice", MissingKeyMsg))]
            /\ completed' = [completed EXCEPT ![r] =
                   Append(@, [text |-> MissingKeyMsg, usage |-> "undefined",
                              file |-> "undefined"])]
            /\ trace' = [trace EXCEPT ![r] =
                   @ \o <<"addMessage.user", "completeResponse">>]
            /\ pc' = [pc EXCEPT ![r] = "done"]
            /\ UNCHANGED <<messages, opened>>
       ELSE /\ messages' = [messages EXCEPT ![r] =
                   formatMessagesForOpenAI(
                       formatSystemPrompt(data[r].system_message,
                                          data[r].project_system_message),
                       Pushed(data[r].thread_id, UserTurn(r)),
                       data[r].message)]
            /\ opened' = [opened EXCEPT ![r] = @ + 1]
            /\ trace' = [trace EXCEPT ![r] =
                   @ \o <<"addMessage.user", "getHistory">>]
            /\ pc' = [pc EXCEPT ![r] = "create"]
            /\ UNCHANGED <<sink, completed>>
    /\ UNCHANGED <<held, data, fullResponse, usageInfo, functionCalls, toolIdx,
                   combinedResult, generatedFileUrl, errors, consumed,
                   executorCalls, executed>>

\* Mutant of ProcessMessageStart: the history is read before the user turn is
\* stored.
ProcessMessageStart_ReadFirst(r) ==
    /\ pc[r] = "ready"
    /\ IF Falsy(data[r].apiKey)
       THEN /\ sink' = [sink EXCEPT ![r] = Append(@, Note("notice", MissingKeyMsg))]
            /\ completed' = [completed EXCEPT ![r] =
                   Append(@, [text |-> MissingKeyMsg, usage |-> "undefined",
                              file |-> "undefined"])]
            /\ trace' = [trace EXCEPT ![r] = Append(@, "completeResponse")]
            /\ pc' = [pc EXCEPT ![r] = "done"]
            /\ UNCHANGED <<messages, opened, appendedBy>>
            /\ UNCHANGED_Store
       ELSE /\ messages' = [messages EXCEPT ![r] =
                   formatMessagesForOpenAI(
                       formatSystemPrompt(data[r].system_message,
                                          data[r].project_system_message),
                       getHistory(data[r].thread_id),
                       data[r].message)]
            /\ addMessage(data[r].thread_id, "user", data[r].message)
            /\ appendedBy' = [appendedBy EXCEPT ![r] = Append(@, "user")]
            /\ opened' = [opened EXCEPT ![r] = @ + 1]
            /\ trace' = [trace EXCEPT ![r] =
                   @ \o <<"getHistory", "addMessage.user">>]
            /\ pc' = [pc EXCEPT ![r] = "create"]
            /\ UNCHANGED <<held, sink, completed>>
    /\ UNCHANGED <<data, fullResponse, usageInfo, functionCalls, toolIdx,
                   combinedResult, generatedFileUrl, errors, consumed,
                   executorCalls, executed>>

\* processMessage from its entry to the completions.create call: the key
\* check, and with a key the user turn, the history and the message list.
ProcessMessageStart(r) ==
    /\ pc[r] = "ready"
    /\ IF Falsy(data[r].apiKey)
       THEN /\ sink' = [sink EXCEPT ![r] = Append(@, Note("notice", MissingKeyMsg))]
            /\ completed' = [completed EXCEPT ![r] =
                   Append(@, [text |-> MissingKeyMsg, usage |-> "undefined",
                              file |-> "undefined"])]
            /\ trace' = [trace EXCEPT ![r] = Append(@, "completeResponse")]
            /\ pc' = [pc EXCEPT ![r] = "done"]
            /\ UNCHANGED <<messages, opened, appendedBy>>
            /\ UNCHANGED_Store
       ELSE /\ addMessage(data[r].thread_id, "user", data[r].message)
            /\ appendedBy' = [appendedBy EXCEPT ![r] = Append(@, "user")]
            /\ messages' = [messages EXCEPT ![r] =
                   LET formatted ==
                           formatMessagesForOpenAI(
                               formatSystemPrompt(data[r].system_message,
                                                  data[r].project_system_message),
                               Pushed(data[r].thread_id, UserTurn(r)),
                               data[r].message)
                   IN  IF HasImage(data[r])
                       THEN AddImage(formatted, data[r].file_url)
                       ELSE formatted]
            /\ trace' = [trace EXCEPT ![r] =
                   @ \o <<"addMessage.user", "getHistory">>]
            /\ opened' = [opened EXCEPT ![r] = IF HasPDF(data[r]) THEN @ ELSE @ + 1]
            /\ pc' = [pc EXCEPT ![r] = IF HasPDF(data[r]) THEN "pdf" ELSE "create"]
            /\ UNCHANGED <<held, sink, completed>>
    /\ UNCHANGED <<data, fullResponse, usageInfo, functionCalls, toolIdx,
                   combinedResult, generatedFileUrl, errors, consumed,
                   executorCalls, executed>>

\* Mutant of ProcessPDF: the message list shares its last entry with the
\* history, so the combined content is written into the stored user turn.
ProcessPDF_Shared(r) ==
    /\ pc[r] = "pdf"
    /\ \E pdf \in PdfOutcomes :
        IF pdf.ok
        THEN /\ messages' = [messages EXCEPT ![r] =
                    AddPDF(@, data[r].message, pdf.text)]
             /\ conversations' =
                    [conversations EXCEPT ![data[r].thread_id] =
                        ReplaceLastContent(@, data[r].message \o <<"<pdf-content>">>
                                              \o pdf.text)]
             /\ trace' = [trace EXCEPT ![r] = Append(@, "pdf.added")]
        ELSE /\ trace' = [trace EXCEPT ![r] = Append(@, "pdf.error")]
             /\ UNCHANGED <<messages, conversations>>
    /\ opened' = [opened EXCEPT ![r] = @ + 1]
    /\ pc' = [pc EXCEPT ![r] = "create"]
    /\ UNCHANGED <<maxHistory, now, held, log, cleared>>
    /\ UNCHANGED <<data, fullResponse, usageInfo, functionCalls, toolIdx,
                   combinedResult, generatedFileUrl, sink, completed, errors,
                   consumed, executorCalls, executed, appendedBy>>

\* Mutant of ProcessPDF: a failure is thrown on to processMessage's catch block.
ProcessPDF_Fatal(r) ==
    /\ pc[r] = "pdf"
    /\ \E pdf \in PdfOutcomes :
        IF pdf.ok
        THEN /\ messages' = [messages EXCEPT ![r] =
                    AddPDF(@, data[r].message, pdf.text)]
             /\ trace' = [trace EXCEPT ![r] = Append(@, "pdf.added")]
             /\ opened' = [opened EXCEPT ![r] = @ + 1]
             /\ pc' = [pc EXCEPT ![r] = "create"]
             /\ UNCHANGED errors
        ELSE /\ errors' = [errors EXCEPT ![r] = Append(@, "pdf")]
             /\ trace' = [trace EXCEPT ![r] = @ \o <<"pdf.error", "sendError">>]
             /\ pc' = [pc EXCEPT ![r] = "done"]
             /\ UNCHANGED <<messages, opened>>
    /\ UNCHANGED_Store
    /\ UNCHANGED <<data, fullResponse, usageInfo, functionCalls, toolIdx,
                   combinedResult, generatedFileUrl, sink, completed,
                   consumed, executorCalls, executed, appendedBy>>

\* The PDF branch: download, extraction and token count in one try block whose
\* last statement replaces the content of the last message; the catch block
\* logs the error and the request goes on to completions.create.
ProcessPDF(r) ==
    /\ pc[r] = "pdf"
    /\ \E pdf \in PdfOutcomes :
        IF pdf.ok
        THEN /\ messages' = [messages EXCEPT ![r] =
                    AddPDF(@, data[r].message, pdf.text)]
             /\ trace' = [trace EXCEPT ![r] = Append(@, "pdf.added")]
        ELSE /\ trace' = [trace EXCEPT ![r] = Append(@, "pdf.error")]
             /\ UNCHANGED messages
    /\ opened' = [opened EXCEPT ![r] = @ + 1]
    /\ pc' = [pc EXCEPT ![r] = "create"]
    /\ UNCHANGED_Store
    /\ UNCHANGED <<data, fullResponse, usageInfo, functionCalls, toolIdx,
                   combinedResult, generatedFileUrl, sink, completed, errors,
                   consumed, executorCalls, executed, appendedBy>>

\* await client.chat.completions.create(...) hands back the stream.
CreateStream(r) ==
    /\ pc[r] = "create"
    /\ pc' = [pc EXCEPT ![r] = "streaming"]
    /\ UNCHANGED_Store
    /\ UNCHANGED <<data, messages, fullResponse, usageInfo, functionCalls, toolIdx,
                   combinedResult, generatedFileUrl, sink, completed, errors,
                   consumed, opened, executorCalls, executed, appendedBy, trace>>

\* Mutant of CreateFails: the catch block takes the last message of the thread
\* out of the store again.
CreateFails_Rollback(r) ==
    /\ pc[r] = "create"
    /\ SendError(r, "create")
    /\ conversations' =
           [conversations EXCEPT ![data[r].thread_id] =
               IF @ = << >> THEN @ ELSE SubSeq(@, 1, Len(@) - 1)]
    /\ UNCHANGED <<maxHistory, now, held, log, cleared>>
    /\ UNCHANGED <<data, messages, fullResponse, usageInfo, functionCalls, toolIdx,
                   combinedResult, generatedFileUrl, sink, completed,
                   consumed, opened, executorCalls, executed, appendedBy>>

\* await client.chat.completions.create(...) rejects.
CreateFails(r) ==
    /\ pc[r] = "create"
    /\ SendError(r, "create")
    /\ UNCHANGED_Store
    /\ UNCHANGED <<data, messages, fullResponse, usageInfo, functionCalls, toolIdx,
                   combinedResult, generatedFileUrl, sink, completed,
                   consumed, opened, executorCalls, executed, appendedBy>>

\* One iteration of for await (const chunk of stream).
StreamChunk(r) ==
    /\ pc[r] = "streaming"
    /\ Len(consumed[r]) < MaxChunks
    /\ \E chunk \in Chunks :
        LET st == HandleChunk(LoopState(r), chunk)
        IN  /\ consumed' = [consumed EXCEPT ![r] = Append(@, chunk)]
            /\ fullResponse' = [fullResponse EXCEPT ![r] = st.fullResponse]
            /\ functionCalls' = [functionCalls EXCEPT ![r] = st.functionCalls]
            /\ usageInfo' = [usageInfo EXCEPT ![r] = st.usageInfo]
            /\ sink' = [sink EXCEPT ![r] = st.sink]
            /\ IF st.threw
               THEN SendError(r, "TypeError")
               ELSE UNCHANGED <<errors, pc, trace>>
    /\ UNCHANGED_Store
    /\ UNCHANGED <<data, messages, toolIdx, combinedResult, generatedFileUrl,
                   completed, opened, executorCalls, executed, appendedBy>>

\* Mutant of StreamChunkSinkFails: a rejection of a progress notification
\* leaves the loop like the others.
StreamChunkSinkFails_AllFatal(r) ==
    /\ pc[r] = "streaming"
    /\ Len(consumed[r]) < MaxChunks
    /\ \E chunk \in Chunks, fails \in (SUBSET LoopKinds) \ {{}} :
        LET st == HandleChunk(LoopStateFailing(r, fails), chunk)
        IN  /\ st.rejected # << >>
            /\ consumed' = [consumed EXCEPT ![r] = Append(@, chunk)]
            /\ fullResponse' = [fullResponse EXCEPT ![r] = st.fullResponse]
            /\ functionCalls' = [functionCalls EXCEPT ![r] = st.functionCalls]
            /\ usageInfo' = [usageInfo EXCEPT ![r] = st.usageInfo]
            /\ sink' = [sink EXCEPT ![r] = st.sink]
            /\ errors' = [errors EXCEPT ![r] = Append(@, "sink")]
            /\ trace' = [trace EXCEPT ![r] =
                   @ \o [j \in 1..Len(st.rejected) |-> "rejected." \o st.rejected[j]]
                     \o <<"sendError">>]
            /\ pc' = [pc EXCEPT ![r] = "done"]
    /\ UNCHANGED_Store
    /\ UNCHANGED <<data, messages, toolIdx, combinedResult, generatedFileUrl,
                   completed, opened, executorCalls, executed, appendedBy>>

\* One iteration of for await (const chunk of stream) during which
\* lexia.streamChunk rejects at least one note.
StreamChunkSinkFails(r) ==
    /\ pc[r] = "streaming"
    /\ Len(consumed[r]) < MaxChunks
    /\ \E chunk \in Chunks, fails \in (SUBSET LoopKinds) \ {{}} :
        LET st == HandleChunk(LoopStateFailing(r, fails), chunk)
            fatal == \E j \in 1..Len(st.rejected) : st.rejected[j] # "params"
        IN  /\ st.rejected # << >>
            /\ consumed' = [consumed EXCEPT ![r] = Append(@, chunk)]
            /\ fullResponse' = [fullResponse EXCEPT ![r] = st.fullResponse]
            /\ functionCalls' = [functionCalls EXCEPT ![r] = st.functionCalls]
            /\ usageInfo' = [usageInfo EXCEPT ![r] = st.usageInfo]
            /\ sink' = [sink EXCEPT ![r] = st.sink]
            /\ trace' = [trace EXCEPT ![r] =
                   @ \o [j \in 1..Len(st.rejected) |-> "rejected." \o st.rejected[j]]
                     \o (IF st.threw THEN <<"sendError">> ELSE << >>)]
            /\ IF st.threw
               THEN /\ errors' = [errors EXCEPT ![r] =
                           Append(@, IF fatal THEN "sink" ELSE "TypeError")]
                    /\ pc' = [pc EXCEPT ![r] = "done"]
               ELSE UNCHANGED <<errors, pc>>
    /\ UNCHANGED_Store
    /\ UNCHANGED <<data, messages, toolIdx, combinedResult, generatedFileUrl,
                   completed, opened, executorCalls, executed, appendedBy>>

\* Mutant of StreamRaises: the text received so far is returned as a success.
StreamRaises_Partial(r) ==
    /\ pc[r] = "streaming"
    /\ completed' = [completed EXCEPT ![r] =
           Append(@, [text |-> fullResponse[r], usage |-> usageInfo[r],
                      file |-> "undefined"])]
    /\ pc' = [pc EXCEPT ![r] = "done"]
    /\ errors' = [errors EXCEPT ![r] = Append(@, "stream")]
    /\ trace' = [trace EXCEPT ![r] = @ \o <<"completeResponse", "sendError">>]
    /\ UNCHANGED_Store
    /\ UNCHANGED <<data, messages, fullResponse, usageInfo, functionCalls, toolIdx,
                   combinedResult, generatedFileUrl, sink,
                   consumed, opened, executorCalls, executed, appendedBy>>

\* The stream throws while it is iterated: the catch block reports it.
StreamRaises(r) ==
    /\ pc[r] = "streaming"
    /\ SendError(r, "stream")
    /\ UNCHANGED_Store
    /\ UNCHANGED <<data, messages, fullResponse, usageInfo, functionCalls, toolIdx,
                   combinedResult, generatedFileUrl, sink, completed,
                   consumed, opened, executorCalls, executed, appendedBy>>

\* Mutant of StreamExhausted: processFunctionCalls forwards a notification
\* before it looks at the list.
StreamExhausted_Notify(r) ==
    /\ pc[r] = "streaming"
    /\ pc' = [pc EXCEPT ![r] = "tools"]
    /\ executorCalls' = [executorCalls EXCEPT ![r] = @ + 1]
    /\ toolIdx' = [toolIdx EXCEPT ![r] = 1]
    /\ combinedResult' = [combinedResult EXCEPT ![r] = << >>]
    /\ generatedFileUrl' = [generatedFileUrl EXCEPT ![r] = "null"]
    /\ sink' = [sink EXCEPT ![r] = Append(@, Note("processing", << >>))]
    /\ UNCHANGED_Store
    /\ UNCHANGED <<data, messages, fullResponse, usageInfo, functionCalls,
                   completed, errors, consumed, opened, executed, appendedBy,
                   trace>>

\* The stream ends; processFunctionCalls(functionCalls, lexia, data) is called.
StreamExhausted(r) ==
    /\ pc[r] = "streaming"
    /\ pc' = [pc EXCEPT ![r] = "tools"]
    /\ executorCalls' = [executorCalls EXCEPT ![r] = @ + 1]
    /\ toolIdx' = [toolIdx EXCEPT ![r] = 1]
    /\ combinedResult' = [combinedResult EXCEPT ![r] = << >>]
    /\ generatedFileUrl' = [generatedFileUrl EXCEPT ![r] = "null"]
    /\ UNCHANGED_Store
    /\ UNCHANGED <<data, messages, fullResponse, usageInfo, functionCalls,
                   sink, completed, errors, consumed, opened, executed, appendedBy,
                   trace>>

\* Mutant of ExecuteFunctionCall: a failed invocation is thrown on to
\* processMessage's catch block instead of being returned as text.
ExecuteFunctionCall_Rethrow(r) ==
    /\ pc[r] = "tools"
    /\ toolIdx[r] <= Len(functionCalls[r])
    /\ \E dalle \in DalleOutcomes :
        LET out == executeFunctionCall(functionCalls[r][toolIdx[r]], dalle)
            failed == out.result \in {ParseErrorResult, ImageErrorResult}
        IN  /\ sink' = [sink EXCEPT ![r] = @ \o out.notes]
            /\ combinedResult' = [combinedResult EXCEPT ![r] = @ \o out.result]
            /\ generatedFileUrl' = [generatedFileUrl EXCEPT ![r] =
                   IF out.fileUrl # "null" /\ @ = "null" THEN out.fileUrl ELSE @]
            /\ executed' = [executed EXCEPT ![r] =
                   Append(@, [slot |-> toolIdx[r], result |-> out.result,
                              fileUrl |-> out.fileUrl])]
            /\ IF failed
               THEN /\ errors' = [errors EXCEPT ![r] = Append(@, "tool")]
                    /\ trace' = [trace EXCEPT ![r] =
                           @ \o <<"executeFunctionCall", "sendError">>]
                    /\ pc' = [pc EXCEPT ![r] = "done"]
               ELSE /\ trace' = [trace EXCEPT ![r] = Append(@, "executeFunctionCall")]
                    /\ UNCHANGED <<errors, pc>>
    /\ toolIdx' = [toolIdx EXCEPT ![r] = @ + 1]
    /\ UNCHANGED_Store
    /\ UNCHANGED <<data, messages, fullResponse, usageInfo, functionCalls,
                   completed, consumed, opened, executorCalls, appendedBy>>

\* Mutant of ExecuteFunctionCall: the list is walked from its end.
ExecuteFunctionCall_Descending(r) ==
    /\ pc[r] = "tools"
    /\ toolIdx[r] <= Len(functionCalls[r])
    /\ \E dalle \in DalleOutcomes :
        LET slot == Len(functionCalls[r]) + 1 - toolIdx[r]
            out == executeFunctionCall(functionCalls[r][slot], dalle)
        IN  /\ sink' = [sink EXCEPT ![r] = @ \o out.notes]
            /\ combinedResult' = [combinedResult EXCEPT ![r] = @ \o out.result]
            /\ generatedFileUrl' = [generatedFileUrl EXCEPT ![r] =
                   IF out.fileUrl # "null" /\ @ = "null" THEN out.fileUrl ELSE @]
            /\ executed' = [executed EXCEPT ![r] =
                   Append(@, [slot |-> slot, result |-> out.result,
                              fileUrl |-> out.fileUrl])]
    /\ trace' = [trace EXCEPT ![r] = Append(@, "executeFunctionCall")]
    /\ toolIdx' = [toolIdx EXCEPT ![r] = @ + 1]
    /\ UNCHANGED_Store
    /\ UNCHANGED <<pc, data, messages, fullResponse, usageInfo, functionCalls,
                   completed, errors, consumed, opened, executorCalls, appendedBy>>

\* Mutant of ExecuteFunctionCall: every file URL replaces the one kept so far.
ExecuteFunctionCall_LastUrl(r) ==
    /\ pc[r] = "tools"
    /\ toolIdx[r] <= Len(functionCalls[r])
    /\ \E dalle \in DalleOutcomes :
        LET out == executeFunctionCall(functionCalls[r][toolIdx[r]], dalle)
        IN  /\ sink' = [sink EXCEPT ![r] = @ \o out.notes]
            /\ combinedResult' = [combinedResult EXCEPT ![r] = @ \o out.result]
            /\ generatedFileUrl' = [generatedFileUrl EXCEPT ![r] =
                   IF out.fileUrl # "null" THEN out.fileUrl ELSE @]
            /\ executed' = [executed EXCEPT ![r] =
                   Append(@, [slot |-> toolIdx[r], result |-> out.result,
                              fileUrl |-> out.fileUrl])]
    /\ trace' = [trace EXCEPT ![r] = Append(@, "executeFunctionCall")]
    /\ toolIdx' = [toolIdx EXCEPT ![r] = @ + 1]
    /\ UNCHANGED_Store
    /\ UNCHANGED <<pc, data, messages, fullResponse, usageInfo, functionCalls,
                   completed, errors, consumed, opened, executorCalls, appendedBy>>

\* One iteration of processFunctionCalls' for (const functionCall of functionCalls).
ExecuteFunctionCall(r) ==
    /\ pc[r] = "tools"
    /\ toolIdx[r] <= Len(functionCalls[r])
    /\ \E dalle \in DalleOutcomes :
        LET out == executeFunctionCall(functionCalls[r][toolIdx[r]], dalle)
        IN  /\ sink' = [sink EXCEPT ![r] = @ \o out.notes]
            /\ combinedResult' = [combinedResult EXCEPT ![r] = @ \o out.result]
            /\ generatedFileUrl' = [generatedFileUrl EXCEPT ![r] =
                   IF out.fileUrl # "null" /\ @ = "null" THEN out.fileUrl ELSE @]
            /\ executed' = [executed EXCEPT ![r] =
                   Append(@, [slot |-> toolIdx[r], result |-> out.result,
                              fileUrl |-> out.fileUrl])]
    /\ trace' = [trace EXCEPT ![r] = Append(@, "executeFunctionCall")]
    /\ toolIdx' = [toolIdx EXCEPT ![r] = @ + 1]
    /\ UNCHANGED_Store
    /\ UNCHANGED <<pc, data, messages, fullResponse, usageInfo, functionCalls,
                   completed, errors, consumed, opened, executorCalls, appendedBy>>

\* Mutant of Complete: the assistant turn is stored without the tool results.
Complete_StoreStreamText(r) ==
    /\ pc[r] = "tools"
    /\ toolIdx[r] > Len(functionCalls[r])
    /\ LET text == fullResponse[r] \o combinedResult[r]
       IN  /\ fullResponse' = [fullResponse EXCEPT ![r] = text]
           /\ addMessage(data[r].thread_id, "assistant", fullResponse[r])
           /\ completed' = [completed EXCEPT ![r] =
                  Append(@, [text |-> text, usage |-> usageInfo[r],
                             file |-> IF generatedFileUrl[r] # "null"
                                      THEN generatedFileUrl[r]
                                      ELSE "undefined"])]
    /\ appendedBy' = [appendedBy EXCEPT ![r] = Append(@, "assistant")]
    /\ trace' = [trace EXCEPT ![r] =
           @ \o <<"addMessage.assistant", "completeResponse">>]
    /\ pc' = [pc EXCEPT ![r] = "done"]
    /\ UNCHANGED <<held, data, messages, usageInfo, functionCalls, toolIdx,
                   combinedResult, generatedFileUrl, sink, errors, consumed,
                   opened, executorCalls, executed>>

\* Mutant of Complete: the assistant turn is stored under one fixed thread.
Complete_FixedThread(r) ==
    /\ pc[r] = "tools"
    /\ toolIdx[r] > Len(functionCalls[r])
    /\ LET text == fullResponse[r] \o combinedResult[r]
       IN  /\ fullResponse' = [fullResponse EXCEPT ![r] = text]
           /\ addMessage("t1", "assistant", text)
           /\ completed' = [completed EXCEPT ![r] =
                  Append(@, [text |-> text, usage |-> usageInfo[r],
                             file |-> IF generatedFileUrl[r] # "null"
                                      THEN generatedFileUrl[r]
                                      ELSE "undefined"])]
    /\ appendedBy' = [appendedBy EXCEPT ![r] = Append(@, "assistant")]
    /\ trace' = [trace EXCEPT ![r] =
           @ \o <<"addMessage.assistant", "completeResponse">>]
    /\ pc' = [pc EXCEPT ![r] = "done"]
    /\ UNCHANGED <<held, data, messages, usageInfo, functionCalls, toolIdx,
                   combinedResult, generatedFileUrl, sink, errors, consumed,
                   opened, executorCalls, executed>>

\* Mutant of Complete: the assistant turn is stored right behind the user turn
\* of its own request instead of at the end of the array.
Complete_AfterOwnTurn(r) ==
    /\ pc[r] = "tools"
    /\ toolIdx[r] > Len(functionCalls[r])
    /\ LET text == fullResponse[r] \o combinedResult[r]
           t == data[r].thread_id
           old == getHistory(t)
           own == {j \in 1..Len(old) :
                      old[j].role = "user" /\ old[j].content = data[r].message}
           at == IF own = {} THEN Len(old)
                 ELSE CHOOSE j \in own : \A k \in own : j <= k
           placed == SubSeq(old, 1, at) \o <<NewMessage("assistant", text)>>
                     \o SubSeq(old, at + 1, Len(old))
       IN  /\ fullResponse' = [fullResponse EXCEPT ![r] = text]
           /\ conversations' =
                  MapSet(conversations, t,
                         IF Len(placed) > maxHistory THEN Tail(placed) ELSE placed)
           /\ now' = now + 1
           /\ log' = [log EXCEPT ![t] = Append(@, NewMessage("assistant", text))]
           /\ UNCHANGED <<maxHistory, cleared>>
           /\ completed' = [completed EXCEPT ![r] =
                  Append(@, [text |-> text, usage |-> usageInfo[r],
                             file |-> IF generatedFileUrl[r] # "null"
                                      THEN generatedFileUrl[r]
                                      ELSE "undefined"])]
    /\ appendedBy' = [appendedBy EXCEPT ![r] = Append(@, "assistant")]
    /\ trace' = [trace EXCEPT ![r] =
           @ \o <<"addMessage.assistant", "completeResponse">>]
    /\ pc' = [pc EXCEPT ![r] = "done"]
    /\ UNCHANGED <<held, data, messages, usageInfo, functionCalls, toolIdx,
                   combinedResult, generatedFileUrl, sink, errors, consumed,
                   opened, executorCalls, executed>>

\* processFunctionCalls has returned: the result is folded into the text, the
\* assistant turn is stored and completeResponse is called.
Complete(r) ==
    /\ pc[r] = "tools"
    /\ toolIdx[r] > Len(functionCalls[r])
    /\ LET text == fullResponse[r] \o combinedResult[r]
       IN  /\ fullResponse' = [fullResponse EXCEPT ![r] = text]
           /\ addMessage(data[r].thread_id, "assistant", text)
           /\ completed' = [completed EXCEPT ![r] =
                  Append(@, [text |-> text, usage |-> usageInfo[r],
                             file |-> IF generatedFileUrl[r] # "null"
                                      THEN generatedFileUrl[r]
                                      ELSE "undefined"])]
    /\ appendedBy' = [appendedBy EXCEPT ![r] = Append(@, "assistant")]
    /\ trace' = [trace EXCEPT ![r] =
           @ \o <<"addMessage.assistant", "completeResponse">>]
    /\ pc' = [pc EXCEPT ![r] = "done"]
    /\ UNCHANGED <<held, data, messages, usageInfo, functionCalls, toolIdx,
                   combinedResult, generatedFileUrl, sink, errors, consumed,
                   opened, executorCalls, executed>>

\* ------------------------------------------------------------------ specifications
\* The ChatMessage of a request.
RequestData(key) ==
    [thread_id |-> "t1", message |-> <<"m">>, apiKey |-> key,
     system_message |-> << >>, project_system_message |-> << >>,
     file_type |-> "none", file_url |-> << >>]

\* The ChatMessage of a request that names a file.
RequestWithFile(key, type, url) ==
    [RequestData(key) EXCEPT !.file_type = type, !.file_url = url]

\* No request has touched anything; the requests of `ready` are about to run.
InitRequests(ready) ==
    /\ pc = [r \in Reqs |-> IF r \in ready THEN "ready" ELSE "off"]
    /\ messages = [r \in Reqs |-> << >>]
    /\ fullResponse = [r \in Reqs |-> << >>]
    /\ usageInfo = [r \in Reqs |-> "null"]
    /\ functionCalls = [r \in Reqs |-> << >>]
    /\ toolIdx = [r \in Reqs |-> 0]
    /\ combinedResult = [r \in Reqs |-> << >>]
    /\ generatedFileUrl = [r \in Reqs |-> "null"]
    /\ sink = [r \in Reqs |-> << >>]
    /\ completed = [r \in Reqs |-> << >>]
    /\ errors = [r \in Reqs |-> << >>]
    /\ consumed = [r \in Reqs |-> << >>]
    /\ opened = [r \in Reqs |-> 0]
    /\ executorCalls = [r \in Reqs |-> 0]
    /\ executed = [r \in Reqs |-> << >>]
    /\ appendedBy = [r \in Reqs |-> << >>]
    /\ trace = [r \in Reqs |-> << >>]

InitStoreVars ==
    /\ now = 0
    /\ held = [ref |-> "none", key |-> "t1", arr |-> << >>]
    /\ log = [t \in Threads |-> << >>]
    /\ cleared = {}

InitStore ==
    /\ \E mh \in 0..MaxHist : ConversationManager(mh)
    /\ InitStoreVars
    /\ InitRequests({})
    /\ data = [r \in Reqs |-> RequestData([present |-> TRUE, value |-> <<"sk">>])]

NextStore ==
    \/ AddMessage
    \/ GetHistory
    \/ ClearHistory

\* The store driven through its API only.
SpecStore == InitStore /\ [][NextStore]_vars

NextAlias ==
    \/ AddMessage
    \/ GetHistory
    \/ ClearHistory
    \/ CallerPush
    \/ CallerPop
    \/ CallerReplace

\* The store driven through its API by a caller that also writes into the
\* arrays getHistory hands out.
SpecAlias == InitStore /\ [][NextAlias]_vars

\* main.js: the store is constructed with maxHistory 10 and one request arrives.
Init ==
    /\ ConversationManager(DefaultMaxHistory)
    /\ InitStoreVars
    /\ InitRequests({"r1"})
    /\ \E key \in ApiKeys :
          data = [r \in Reqs |->
                    RequestData(IF r = "r1" THEN key
                                ELSE [present |-> TRUE, value |-> <<"sk">>])]

Next ==
    \E r \in Reqs :
        \/ ProcessMessageStart(r)
        \/ CreateStream(r)
        \/ CreateFails(r)
        \/ StreamChunk(r)
        \/ StreamRaises(r)
        \/ StreamExhausted(r)
        \/ ExecuteFunctionCall(r)
        \/ Complete(r)

\* One processMessage call on the store of main.js.
Spec == Init /\ [][Next]_vars

\* The steps of a request whose stream delivers at most MaxLiveChunks chunks.
NextLive ==
    \E r \in Reqs :
        \/ ProcessMessageStart(r)
        \/ CreateStream(r)
        \/ CreateFails(r)
        \/ (Len(consumed[r]) < MaxLiveChunks /\ StreamChunk(r))
        \/ StreamRaises(r)
        \/ StreamExhausted(r)
        \/ ExecuteFunctionCall(r)
        \/ Complete(r)

\* The steps of a request whose sink may reject what the loop forwards.
NextSink ==
    \E r \in Reqs :
        \/ ProcessMessageStart(r)
        \/ CreateStream(r)
        \/ CreateFails(r)
        \/ (Len(consumed[r]) < MaxLiveChunks /\ StreamChunk(r))
        \/ (Len(consumed[r]) < MaxLiveChunks /\ StreamChunkSinkFails(r))
        \/ StreamRaises(r)
        \/ StreamExhausted(r)
        \/ ExecuteFunctionCall(r)
        \/ Complete(r)

\* One processMessage call with a streaming sink that may fail.
SpecSink == Init /\ [][NextSink]_vars

\* A store of any maxHistory that already holds conversations when a request
\* with a key arrives for thread t1.
InitThread ==
    /\ \E mh \in 0..MaxHist : ConversationManager(mh)
    /\ InitStoreVars
    /\ InitRequests({"r1"})
    /\ data = [r \in Reqs |-> RequestData([present |-> TRUE, value |-> <<"sk">>])]

NextThread ==
    \/ AddMessage
    \/ ClearHistory
    \/ \E r \in Reqs : ProcessMessageStart(r)

\* The store is used through its API, and one processMessage call builds its
\* message list from whatever history its thread holds at that moment.
SpecThread == InitThread /\ [][NextThread]_vars

\* The chunks the streams of two requests in flight together deliver.
PairChunks ==
    {Chunk(TRUE, <<"h">>, << >>, "null"),
     Chunk(FALSE, << >>, <<Delta(0, TRUE, IdOf(0), "generate_image", <<"{">>)>>, "null"),
     Chunk(FALSE, << >>, <<Delta(0, TRUE, IdOf(0), "other_tool", << >>)>>, "null")}

\* Two requests with a key are in flight on one store, r1 for thread t1 and
\* r2 for thread `other`; the store keeps one message or the 10 of main.js.
InitPair(other) ==
    /\ \E mh \in {1, DefaultMaxHistory} : ConversationManager(mh)
    /\ InitStoreVars
    /\ InitRequests(Reqs)
    /\ data = [r \in Reqs |->
                 [RequestData([present |-> TRUE, value |-> <<"sk">>])
                     EXCEPT !.thread_id = IF r = "r1" THEN "t1" ELSE other,
                            !.message = IF r = "r1" THEN <<"m">> ELSE <<"n">>]]

\* The steps of two requests, each resumed at any of its awaits.
NextPair ==
    \E r \in Reqs :
        \/ ProcessMessageStart(r)
        \/ CreateStream(r)
        \/ CreateFails(r)
        \/ /\ Len(consumed[r]) < MaxPairChunks
           /\ StreamChunk(r)
           /\ Last(consumed'[r]) \in PairChunks
        \/ StreamRaises(r)
        \/ StreamExhausted(r)
        \/ ExecuteFunctionCall(r)
        \/ Complete(r)

\* Two concurrent processMessage calls for different threads.
SpecPair == InitPair("t2") /\ [][NextPair]_vars

\* Two concurrent processMessage calls for the same thread.
SpecSameKey == InitPair("t1") /\ [][NextPair]_vars

\* The steps of two requests whose sink may reject what the loop forwards.
NextSinkPair ==
    \/ NextPair
    \/ \E r \in Reqs :
          /\ Len(consumed[r]) < MaxPairChunks
          /\ StreamChunkSinkFails(r)
          /\ Last(consumed'[r]) \in PairChunks

\* Two processMessage calls for the same thread, one after the other or
\* overlapping, each of which may fail.
SpecSinkPair == InitPair("t1") /\ [][NextSinkPair]_vars

\* main.js: one request with a key arrives; it may name a PDF or an image.
InitFiles ==
    /\ ConversationManager(DefaultMaxHistory)
    /\ InitStoreVars
    /\ InitRequests({"r1"})
    /\ \E type \in {"none", "pdf", "image"}, url \in {<< >>, <<"f">>} :
          data = [r \in Reqs |->
                    RequestWithFile([present |-> TRUE, value |-> <<"sk">>],
                                    IF r = "r1" THEN type ELSE "none",
                                    IF r = "r1" THEN url ELSE << >>)]

NextFiles ==
    \E r \in Reqs :
        \/ ProcessMessageStart(r)
        \/ ProcessPDF(r)
        \/ CreateStream(r)
        \/ CreateFails(r)
        \/ (Len(consumed[r]) < MaxLiveChunks /\ StreamChunk(r))
        \/ StreamRaises(r)
        \/ StreamExhausted(r)
        \/ ExecuteFunctionCall(r)
        \/ Complete(r)

\* One processMessage call for a message that may carry a file.
SpecFiles == InitFiles /\ [][NextFiles]_vars

\* One processMessage call that is always resumed: the event loop runs the
\* continuation of every await that settles, and a finite stream settles every
\* next() with a chunk, its end or an error.
SpecLive == Init /\ [][NextLive]_vars /\ WF_vars(NextLive)

\* ------------------------------------------------------------------ claims on the store
\* The message the addMessage call of this step stores.
Appended(m) == NewMessage(m[1], m[2])

\* C1: in every state reached through addMessage, getHistory and clearHistory,
\* for every maxHistory >= 0, every thread's stored history has at most
\* maxHistory messages.
C1_LengthBound ==
    \A t \in Threads : Len(getHistory(t)) <= maxHistory

\* C1 witness: a thread received more messages than maxHistory >= 1 and holds
\* exactly maxHistory of them, after getHistory was called on it.
C1_Witness ==
    \E t \in Threads :
        /\ maxHistory >= 1
        /\ Len(log[t]) > maxHistory
        /\ Len(getHistory(t)) = maxHistory
        /\ held.ref = "store" /\ held.key = t

\* C2: a caller that pushes onto, pops from or assigns into the array that
\* getHistory returned changes no thread's stored history, and the stored
\* histories stay within maxHistory.
C2_ReturnedHistoryIsolated ==
    [][CallerMutate =>
        /\ \A t \in Threads : getHistory(t)' = getHistory(t)
        /\ \A t \in Threads : Len(getHistory(t)') <= maxHistory']_vars

\* C3 as stated: after maxHistory + k appends to one key of a fresh store the
\* history has length min(maxHistory, maxHistory + k) and contains the k most
\* recent appended messages in chronological order.
C3_Original ==
    \A t \in Threads :
        (t \notin cleared /\ Len(log[t]) >= maxHistory) =>
            LET k == Len(log[t]) - maxHistory
            IN  /\ Len(getHistory(t)) = Min(maxHistory, maxHistory + k)
                /\ IsSubSeq(LastN(log[t], k), getHistory(t))

\* C3 amended: after maxHistory + k appends to one key of a fresh store the
\* history has length exactly maxHistory and is the maxHistory most recent
\* appended messages in chronological order; it contains the k most recent
\* ones whenever k <= maxHistory.
C3_Amended ==
    \A t \in Threads :
        (t \notin cleared /\ Len(log[t]) >= maxHistory) =>
            LET k == Len(log[t]) - maxHistory
            IN  /\ Len(getHistory(t)) = maxHistory
                /\ getHistory(t) = LastN(log[t], maxHistory)
                /\ k <= maxHistory => IsSubSeq(LastN(log[t], k), getHistory(t))

\* C3 witness: a never-cleared key received maxHistory + k messages with
\* 1 <= k <= maxHistory.
C3_Witness ==
    \E t \in Threads :
        /\ t \notin cleared
        /\ Len(log[t]) > maxHistory
        /\ Len(log[t]) <= 2 * maxHistory
        /\ getHistory(t) = LastN(log[t], maxHistory)

\* addMessage(t, ...) removed a message in this step.
EvictedIn(t) == Len(getHistory(t)') < Len(getHistory(t)) + 1

\* C4 as stated: for every maxHistory, after addMessage the last element of the
\* thread's history is the message just appended, and a message addMessage
\* evicts is the thread's oldest one, never the one just appended.
C4_Original ==
    [][\A t \in Threads, m \in Turns :
        addMessage(t, m[1], m[2]) =>
            /\ getHistory(t)' # << >>
            /\ Last(getHistory(t)') = Appended(m)
            /\ EvictedIn(t) =>
                 /\ getHistory(t) # << >>
                 /\ getHistory(t)' = Append(Tail(getHistory(t)), Appended(m))]_vars

\* C4 amended: for every maxHistory >= 1, after addMessage the last element of
\* the thread's history is the message just appended, and a message addMessage
\* evicts is the thread's oldest one, never the one just appended.
C4_Amended ==
    [][\A t \in Threads, m \in Turns :
        (addMessage(t, m[1], m[2]) /\ maxHistory >= 1) =>
            /\ getHistory(t)' # << >>
            /\ Last(getHistory(t)') = Appended(m)
            /\ EvictedIn(t) =>
                 /\ getHistory(t) # << >>
                 /\ getHistory(t)' = Append(Tail(getHistory(t)), Appended(m))]_vars

\* C4 witness: with maxHistory >= 1 a full thread received one more message;
\* the first message appended is gone and the last one appended is the newest.
C4_Witness ==
    \E t \in Threads :
        /\ maxHistory >= 1
        /\ Len(log[t]) = maxHistory + 1
        /\ Head(getHistory(t)) = log[t][2]
        /\ Last(getHistory(t)) = Last(log[t])

\* C5: addMessage(A, ...) and clearHistory(A) leave getHistory(B) unchanged
\* for every other key B.
C5_OtherKeysUnchanged ==
    [][\A a \in Threads :
        ((\E m \in Turns : addMessage(a, m[1], m[2])) \/ clearHistory(a)) =>
            \A b \in Threads \ {a} : getHistory(b)' = getHistory(b)]_vars

\* C5 witness: key A was cleared and appended to again while another key B
\* holds messages.
C5_Witness ==
    \E a \in Threads, b \in Threads :
        /\ a # b
        /\ a \in cleared
        /\ log[a] # << >>
        /\ getHistory(b) # << >>
        /\ b \notin cleared

\* ------------------------------------------------------------------ claims on processMessage
RECURSIVE Concat(_)
\* The concatenation of a sequence of texts.
Concat(texts) ==
    IF texts = << >> THEN << >> ELSE Head(texts) \o Concat(Tail(texts))

Range(s) == {s[i] : i \in 1..Len(s)}

CarriesContent(chunk) == chunk.hasContent

\* The text-delta fragments of a stream, in arrival order.
ContentFragments(chunks) ==
    LET deltas == SelectSeq(chunks, CarriesContent)
    IN  [i \in 1..Len(deltas) |-> deltas[i].content]

IsNonEmpty(text) == text # << >>

IsTextNote(note) == note.kind = "text"

\* The texts of the text fragments forwarded to the sink, in order.
ForwardedText(notes) ==
    LET textNotes == SelectSeq(notes, IsTextNote)
    IN  [i \in 1..Len(textNotes) |-> textNotes[i].text]

\* C6 as stated: while the stream is consumed and when it is exhausted, the
\* response text is the concatenation of the text-delta fragments received, in
\* arrival order, and the sink has received each of these fragments exactly
\* once, in arrival order.
C6_Original ==
    \A r \in Reqs :
        /\ pc[r] \in {"streaming", "tools"} =>
             fullResponse[r] = Concat(ContentFragments(consumed[r]))
        /\ ForwardedText(sink[r]) = ContentFragments(consumed[r])

\* C6 amended: the response text is the concatenation of the text-delta
\* fragments in arrival order, and the sink has received each non-empty
\* fragment exactly once, in arrival order, before the next event is
\* consumed; an empty fragment is not forwarded.
C6_Amended ==
    \A r \in Reqs :
        /\ pc[r] \in {"streaming", "tools"} =>
             fullResponse[r] = Concat(ContentFragments(consumed[r]))
        /\ ForwardedText(sink[r]) =
             SelectSeq(ContentFragments(consumed[r]), IsNonEmpty)

\* C6 witness: an exhausted stream that carried two different non-empty
\* fragments and an empty one.
C6_Witness ==
    \E r \in Reqs :
        /\ pc[r] = "tools"
        /\ Len(ContentFragments(consumed[r])) = 3
        /\ << >> \in Range(ContentFragments(consumed[r]))
        /\ fullResponse[r] = <<"h", "w">>
        /\ Len(sink[r]) = 2

RECURSIVE FunctionDeltas(_)
\* The tool-call deltas of a stream that carry a function object, in arrival
\* order.
FunctionDeltas(chunks) ==
    IF chunks = << >> THEN << >>
    ELSE LET HasFunction(toolCall) == toolCall.hasFunction
         IN  SelectSeq(Head(chunks).tool_calls, HasFunction)
             \o FunctionDeltas(Tail(chunks))

\* The deltas introduce the indices 0, 1, 2, ... in this order.
IntroducedInOrder(deltas) ==
    \A j \in 1..Len(deltas) :
        deltas[j].index <= Cardinality({deltas[k].index : k \in 1..(j - 1)})

\* The deltas of one index, in arrival order.
DeltasOf(deltas, index) ==
    LET HasIndex(toolCall) == toolCall.index = index
    IN  SelectSeq(deltas, HasIndex)

\* One slot per index: id and name of its first delta, its fragments concatenated.
ExpectedSlots(deltas) ==
    [slot \in 1..Cardinality({deltas[j].index : j \in 1..Len(deltas)}) |->
        LET own == DeltasOf(deltas, slot - 1)
        IN  [id |-> own[1].id, name |-> own[1].name,
             arguments |-> Concat([j \in 1..Len(own) |-> own[j].arguments])]]

HasUnparseableSlot(r) ==
    \E i \in 1..Len(functionCalls[r]) :
        /\ functionCalls[r][i].arguments # << >>
        /\ ~JSONParse(functionCalls[r][i].arguments).ok

\* C8: a request whose stream was exhausted with a slot whose argument text is
\* not a complete JSON value ends with sendError called and completeResponse
\* not called.
C8_UnparseableFailsRequest ==
    \A r \in Reqs :
        (pc[r] = "done" /\ executorCalls[r] = 1 /\ HasUnparseableSlot(r)) =>
            /\ errors[r] # << >>
            /\ completed[r] = << >>

\* C9: once the stream has thrown, after any number of chunks, sendError has
\* been called exactly once, completeResponse and the tool executor never,
\* and the request has stored no assistant turn.
C9_StreamFailureIsTotal ==
    \A r \in Reqs :
        "stream" \in Range(errors[r]) =>
            /\ Len(errors[r]) = 1
            /\ completed[r] = << >>
            /\ executorCalls[r] = 0
            /\ executed[r] = << >>
            /\ "assistant" \notin Range(appendedBy[r])
            /\ \A i \in 1..Len(getHistory(data[r].thread_id)) :
                   getHistory(data[r].thread_id)[i].role # "assistant"

\* C9 witness: the stream threw after text and a tool call had arrived.
C9_Witness ==
    \E r \in Reqs :
        /\ errors[r] = <<"stream">>
        /\ pc[r] = "done"
        /\ fullResponse[r] # << >>
        /\ functionCalls[r] # << >>

\* The step is one of request r.
StepOf(r) == pc'[r] # pc[r] \/ consumed'[r] # consumed[r] \/ toolIdx'[r] # toolIdx[r]

\* C10: with OPENAI_API_KEY absent or empty, processMessage streams the
\* missing-key message once and calls completeResponse with the same message;
\* it never calls sendError, opens no stream, never calls the tool executor
\* and leaves the store as it was.
C10_MissingKey ==
    [][\A r \in Reqs :
        (Falsy(data[r].apiKey) /\ StepOf(r)) =>
            /\ pc[r] = "ready"
            /\ pc'[r] = "done"
            /\ sink'[r] = <<Note("notice", MissingKeyMsg)>>
            /\ completed'[r] = <<[text |-> MissingKeyMsg, usage |-> "undefined",
                                  file |-> "undefined"]>>
            /\ errors'[r] = << >>
            /\ opened'[r] = 0
            /\ executorCalls'[r] = 0
            /\ executed'[r] = << >>
            /\ appendedBy'[r] = << >>
            /\ conversations' = conversations
            /\ log' = log]_vars

\* C10 witness: a request with an empty key has ended.
C10_Witness ==
    \E r \in Reqs :
        /\ data[r].apiKey = [present |-> TRUE, value |-> << >>]
        /\ pc[r] = "done"
        /\ completed[r] # << >>

\* ------------------------------------------------------------------ claims on the tool run
\* `part` occurs in `text` as a contiguous piece.
Contains(text, part) ==
    \E i \in 1..(Len(text) + 1) :
        /\ i + Len(part) - 1 <= Len(text)
        /\ SubSeq(text, i, i + Len(part) - 1) = part

\* The invocation recorded in e failed: what it returned is an error text.
Failed(e) == e.result \in {ParseErrorResult, ImageErrorResult}

\* The slots of the invocations made, in the order they were made.
ExecutedSlots(r) == [i \in 1..Len(executed[r]) |-> executed[r][i].slot]

\* C11: once processFunctionCalls has run and the request is over, every
\* invocation of the list was executed in list order whatever failed before it,
\* an invocation whose arguments do not parse returned the error text,
\* completeResponse was called once and sendError never, and the text of every
\* failed invocation is part of the final response text.
C11_ToolFailureContained ==
    \A r \in Reqs :
        (pc[r] = "done" /\ executorCalls[r] = 1) =>
            /\ ExecutedSlots(r) = [i \in 1..Len(functionCalls[r]) |-> i]
            /\ errors[r] = << >>
            /\ Len(completed[r]) = 1
            /\ \A i \in 1..Len(executed[r]) :
                  /\ (/\ functionCalls[r][i].name = "generate_image"
                      /\ ~JSONParse(functionCalls[r][i].arguments).ok)
                        => executed[r][i].result = ParseErrorResult
                  /\ Failed(executed[r][i])
                        => Contains(completed[r][1].text, executed[r][i].result)

\* A finished request whose first invocation failed in DALL-E and whose second
\* invocation ran.
C11_Witness ==
    \E r \in Reqs :
        /\ pc[r] = "done"
        /\ Len(executed[r]) = 2
        /\ executed[r][1].result = ImageErrorResult
        /\ completed[r] # << >>

\* ------------------------------------------------------------------ claims on the order of calls
\* The positions of s that hold e.
Positions(s, e) == {i \in 1..Len(s) : s[i] = e}

\* The request got past the key check.
PassedKeyCheck(r) == pc[r] \notin {"off", "ready"} /\ ~Falsy(data[r].apiKey)

\* C12: a request that got past the key check stored the user turn before it
\* read the history, so the history it sent ends with that turn; a request
\* that got past the key check and called completeResponse stored the
\* assistant turn exactly once, after one executeFunctionCall per slot had
\* returned and before completeResponse, and the store holds that turn; no
\* request stores an assistant turn twice.
C12_TurnOrder ==
    \A r \in Reqs :
        /\ Cardinality(Positions(trace[r], "addMessage.assistant")) <= 1
        /\ PassedKeyCheck(r) =>
              /\ Positions(trace[r], "addMessage.user") = {1}
              /\ Positions(trace[r], "getHistory") = {2}
              /\ Len(messages[r]) >= 3
              /\ messages[r][Len(messages[r]) - 1] =
                    [role |-> "user", content |-> data[r].message]
        /\ (PassedKeyCheck(r) /\ completed[r] # << >>) =>
              /\ Cardinality(Positions(trace[r], "addMessage.assistant")) = 1
              /\ Cardinality(Positions(trace[r], "executeFunctionCall"))
                    = Len(functionCalls[r])
              /\ \A a \in Positions(trace[r], "addMessage.assistant") :
                    /\ \A e \in Positions(trace[r], "executeFunctionCall") : e < a
                    /\ \A c \in Positions(trace[r], "completeResponse") : a < c
              /\ Last(getHistory(data[r].thread_id)).role = "assistant"
              /\ Last(getHistory(data[r].thread_id)).content = completed[r][1].text

\* A request with a key that ran two tools and completed.
C12_Witness ==
    \E r \in Reqs :
        /\ PassedKeyCheck(r)
        /\ trace[r] = <<"addMessage.user", "getHistory", "executeFunctionCall",
                        "executeFunctionCall", "addMessage.assistant",
                        "completeResponse">>

\* Number of terminal reports (completeResponse and sendError calls) of r.
TerminalReports(r) == Len(completed[r]) + Len(errors[r])

IsPrefix(p, s) == Len(p) <= Len(s) /\ SubSeq(s, 1, Len(p)) = p

\* The names the deltas of a chunk that carry a function object give, in order.
DeltaNames(chunk) ==
    LET own == FunctionDeltas(<<chunk>>)
    IN  [j \in 1..Len(own) |-> own[j].name]

\* The note can have been caused by the chunk: a text note carries its
\* content, an announcement names one of its deltas, a progress note needs a
\* delta with an argument fragment.
CausedBy(note, chunk) ==
    \/ note.kind = "text" /\ chunk.hasContent /\ note.text = chunk.content
    \/ note.kind = "calling" /\ \E n \in Range(DeltaNames(chunk)) : note.text = <<n>>
    \/ /\ note.kind = "params"
       /\ \E d \in Range(FunctionDeltas(<<chunk>>)) : d.arguments # << >>

\* The names announced by the notes, in order.
Announced(notes) ==
    LET IsCalling(note) == note.kind = "calling"
        calling == SelectSeq(notes, IsCalling)
    IN  [j \in 1..Len(calling) |-> calling[j].text[1]]

AccumulatedAfter(deltas) ==
    LET acc == [j \in 1..Len(deltas) |->
                   LET own == DeltasOf(SubSeq(deltas, 1, j), deltas[j].index)
                   IN  [fragment |-> deltas[j].arguments,
                        text |-> Concat([k \in 1..Len(own) |-> own[k].arguments])]]
        IsAppend(a) == a.fragment # << >>
        appends == SelectSeq(acc, IsAppend)
    IN  [j \in 1..Len(appends) |-> appends[j].text]

\* The texts of the progress notifications forwarded, in order.
ProgressTexts(notes) ==
    LET IsParams(note) == note.kind = "params"
        params == SelectSeq(notes, IsParams)
    IN  [j \in 1..Len(params) |-> params[j].text]

\* The value of each text, written back as JSON.
Reserialized(texts) == [j \in 1..Len(texts) |-> JSONStringify(JSONParse(texts[j]))]

\* C15 as stated: for deltas that introduce their indices in order, the
\* progress notifications forwarded are those of exactly the appends after
\* which the accumulated text parses as a complete JSON value, and no error is
\* raised while the stream is consumed.
C15_Original ==
    \A r \in Reqs :
        IntroducedInOrder(FunctionDeltas(consumed[r])) =>
            LET Parses(text) == JSONParse(text).ok
            IN  /\ ProgressTexts(sink[r]) =
                      Reserialized(SelectSeq(AccumulatedAfter(FunctionDeltas(consumed[r])),
                                             Parses))
                /\ pc[r] \in {"streaming", "tools"} => errors[r] = << >>

\* C15 amended: the progress notifications forwarded are those of exactly the
\* appends after which the accumulated text ends with a double quote, } or ]
\* and parses as a complete JSON value; after any other append nothing is
\* forwarded, and no error is raised while the stream is consumed.
C15_Amended ==
    \A r \in Reqs :
        IntroducedInOrder(FunctionDeltas(consumed[r])) =>
            LET Passes(text) == EndsLikeJSON(text) /\ JSONParse(text).ok
            IN  /\ ProgressTexts(sink[r]) =
                      Reserialized(SelectSeq(AccumulatedAfter(FunctionDeltas(consumed[r])),
                                             Passes))
                /\ pc[r] \in {"streaming", "tools"} => errors[r] = << >>

\* Two fragments were appended to a slot: nothing was forwarded after the
\* first, one progress notification after the second.
C15_Witness ==
    \E r \in Reqs :
        /\ IntroducedInOrder(FunctionDeltas(consumed[r]))
        /\ AccumulatedAfter(FunctionDeltas(consumed[r])) = << <<"{">>, <<"{", "}">> >>
        /\ ProgressTexts(sink[r]) = << <<"{", "}">> >>

\* ------------------------------------------------------------------ claims on the slots
\* The indices the deltas before position j have referred to.
IndicesBefore(deltas, j) == {deltas[k].index : k \in 1..(j - 1)}

\* Some delta refers to an index no earlier delta has introduced and either
\* carries no id or name of its own, or skips an index.
ViolatesProtocol(deltas) ==
    \E j \in 1..Len(deltas) :
        /\ deltas[j].index \notin IndicesBefore(deltas, j)
        /\ \/ deltas[j].id = "undefined"
           \/ deltas[j].name = "undefined"
           \/ deltas[j].index > Cardinality(IndicesBefore(deltas, j))

\* C16: a request whose stream held a tool-call delta for an index without a
\* slot that was not introduced with id and name, or a delta that skipped an
\* index, ends with sendError called and completeResponse not called.
C16_ViolationAborts ==
    \A r \in Reqs :
        (pc[r] = "done" /\ ViolatesProtocol(FunctionDeltas(consumed[r]))) =>
            /\ errors[r] # << >>
            /\ completed[r] = << >>

\* The slots of r whose argument text is not empty, in ascending order.
NonEmptySlots(r) ==
    LET HasArguments(i) == functionCalls[r][i].arguments # << >>
    IN  SelectSeq([i \in 1..Len(functionCalls[r]) |-> i], HasArguments)

\* C17: once processFunctionCalls has run and the request is over, the slots
\* handed to executeFunctionCall are exactly those with non-empty argument
\* text, and when no slot has any, no tool notification was forwarded and the
\* final text is the text of the stream alone.
C17_OnlyNonEmptyExecuted ==
    \A r \in Reqs :
        (pc[r] = "done" /\ executorCalls[r] = 1) =>
            /\ ExecutedSlots(r) = NonEmptySlots(r)
            /\ NonEmptySlots(r) = << >> =>
                  /\ \A j \in 1..Len(sink[r]) :
                        sink[r][j].kind \in {"text", "calling", "params"}
                  /\ completed[r][1].text = Concat(ContentFragments(consumed[r]))

\* ------------------------------------------------------------------ claims on the usage record
\* The last usage report of a stream, "null" when it carried none.
LastUsage(chunks) ==
    LET HasUsage(chunk) == chunk.usage # "null"
        reports == SelectSeq(chunks, HasUsage)
    IN  IF reports = << >> THEN "null" ELSE Last(reports).usage

\* C18: while the stream is consumed and after it is exhausted usageInfo is
\* the last usage report received, null when there was none, and this is the
\* usage record completeResponse is called with.
C18_LastUsageReported ==
    \A r \in Reqs :
        /\ pc[r] \in {"streaming", "tools"} => usageInfo[r] = LastUsage(consumed[r])
        /\ (PassedKeyCheck(r) /\ completed[r] # << >>) =>
              completed[r][1].usage = LastUsage(consumed[r])

\* completeResponse was called with the second of two usage reports.
C18_Witness ==
    \E r \in Reqs :
        /\ completed[r] # << >>
        /\ completed[r][1].usage = "u2"
        /\ \E i, j \in 1..Len(consumed[r]) :
              i < j /\ consumed[r][i].usage = "u1" /\ consumed[r][j].usage = "u2"

\* ------------------------------------------------------------------ claims on clearHistory
\* C19: a clearHistory(key) step leaves getHistory(key) empty and key outside
\* getAllThreads(), and after every step the history of a key holds only
\* messages appended since the key was last cleared.
C19_ClearEmpties ==
    [][\A t \in Threads :
          /\ clearHistory(t) =>
                /\ getHistory(t)' = << >>
                /\ t \notin getAllThreads'
          /\ Range(getHistory(t)') \subseteq Range(log'[t])]_vars

\* A key that was appended to, cleared and appended to again: all appends of
\* the behaviour went to it, and its history holds the last one only.
C19_Witness ==
    \E t \in Threads :
        /\ t \in cleared
        /\ \A b \in Threads \ {t} : b \notin cleared /\ b \notin getAllThreads
        /\ maxHistory = 2
        /\ now = 2
        /\ Len(getHistory(t)) = 1
        /\ getHistory(t)[1].timestamp = 1

\* C20: a clearHistory(key) step on an absent key leaves the Map, the key set
\* and the thread count as they were, and every clearHistory(key) step leaves
\* key absent, so that a second clearHistory(key) changes nothing.
C20_ClearIdempotent ==
    [][\A t \in Threads :
          clearHistory(t) =>
              /\ ~MapHas(conversations, t) =>
                    /\ conversations' = conversations
                    /\ getAllThreads' = getAllThreads
                    /\ getThreadCount' = getThreadCount
              /\ ~MapHas(conversations', t)
              /\ MapDelete(conversations', t) = conversations']_vars

\* A key that never held a message was cleared while the other key holds all
\* the messages appended.
C20_Witness ==
    \E t \in Threads, b \in Threads :
        /\ t \in cleared
        /\ b \notin cleared
        /\ now > 0
        /\ Len(log[b]) = now
        /\ getHistory(b) = log[b]
        /\ getThreadCount = 1

\* ------------------------------------------------------------------ claims on the reads of the store
\* C21: a getHistory step leaves the Map, the key set, the thread count and
\* every history as they were, and for an unknown key what it hands out is an
\* empty array.
C21_GetHistoryPure ==
    [][GetHistory =>
          /\ conversations' = conversations
          /\ getAllThreads' = getAllThreads
          /\ getThreadCount' = getThreadCount
          /\ \A b \in Threads : getHistory(b)' = getHistory(b)
          /\ ~MapHas(conversations, held'.key) =>
                /\ getHistory(held'.key) = << >>
                /\ HeldArray' = << >>]_vars

\* getHistory was called for a key that never held a message while the other
\* key holds some.
C21_Witness ==
    \E b \in Threads :
        /\ held.ref = "own"
        /\ held.key # b
        /\ held.key \notin cleared
        /\ held.key \notin getAllThreads
        /\ getHistory(b) # << >>
        /\ getThreadCount = 1

\* The keys that hold at least one stored message.
KeysWithMessages == {t \in Threads : getHistory(t) # << >>}

Unenriched(r) ==
    formatMessagesForOpenAI(
        formatSystemPrompt(data[r].system_message, data[r].project_system_message),
        SubSeq(log[data[r].thread_id], 1, 1),
        data[r].message)

\* C23: once the PDF branch has failed, the message list is the one a request
\* without a file builds, the request has gone on to completions.create with
\* no error reported, and every sendError it makes later reports a failure of
\* completions.create or of the stream.
C23_PdfFailureContained ==
    \A r \in Reqs :
        "pdf.error" \in Range(trace[r]) =>
            /\ messages[r] = Unenriched(r)
            /\ pc[r] \notin {"ready", "pdf"}
            /\ opened[r] = 1
            /\ Last(trace[r]) = "pdf.error" =>
                  pc[r] \in {"create", "streaming", "tools"} /\ errors[r] = << >>
            /\ \A i \in 1..Len(errors[r]) :
                  errors[r][i] \in {"create", "stream", "TypeError"}

\* A request whose PDF could not be parsed consumed its stream and completed.
C23_Witness ==
    \E r \in Reqs :
        /\ "pdf.error" \in Range(trace[r])
        /\ Len(consumed[r]) = 2
        /\ completed[r] # << >>
        /\ errors[r] = << >>

\* ------------------------------------------------------------------ claims on the message list
\* C24: the message list a request builds is the system prompt, then one
\* {role, content} entry per message of the history it read (the history of
\* its thread after its user turn was stored), oldest first, then a user entry
\* for the current message; its length is the length of that history plus 2.
C24_MessageList ==
    [][\A r \in Reqs :
          (ProcessMessageStart(r) /\ ~Falsy(data[r].apiKey)) =>
              LET h == getHistory(data[r].thread_id)'
                  ms == messages'[r]
              IN  /\ Len(ms) = Len(h) + 2
                  /\ ms[1] = [role |-> "system",
                              content |-> formatSystemPrompt(
                                              data[r].system_message,
                                              data[r].project_system_message)]
                  /\ \A i \in 1..Len(h) :
                        ms[i + 1] = [role |-> h[i].role, content |-> h[i].content]
                  /\ ms[Len(ms)] = [role |-> "user", content |-> data[r].message]]_vars

\* A request built its list from a history of two: an assistant turn stored
\* earlier and its own user turn.
C24_Witness ==
    \E r \in Reqs :
        /\ pc[r] = "create"
        /\ Len(messages[r]) = 4
        /\ messages[r][2] = [role |-> "assistant", content |-> <<"b">>]
        /\ messages[r][3] = [role |-> "user", content |-> <<"m">>]

\* ------------------------------------------------------------------ claims on processFunctionCalls
\* The file URLs the invocations made so far returned, in order.
ReturnedUrls(r) ==
    LET HasUrl(e) == e.fileUrl # "null"
        withUrl == SelectSeq(executed[r], HasUrl)
    IN  [i \in 1..Len(withUrl) |-> withUrl[i].fileUrl]

\* C25: while processFunctionCalls runs and when it returns, its result text
\* is the concatenation of the result texts of the invocations made, in list
\* order, and its file URL is the first URL an invocation returned, null when
\* none did; for an empty list both are empty.
C25_CombinedResult ==
    \A r \in Reqs :
        executorCalls[r] = 1 =>
            /\ combinedResult[r] =
                  Concat([i \in 1..Len(executed[r]) |-> executed[r][i].result])
            /\ generatedFileUrl[r] =
                  IF ReturnedUrls(r) = << >> THEN "null" ELSE ReturnedUrls(r)[1]
            /\ functionCalls[r] = << >> =>
                  combinedResult[r] = << >> /\ generatedFileUrl[r] = "null"

\* Two invocations returned different URLs; the first one was kept.
C25_Witness ==
    \E r \in Reqs :
        /\ pc[r] = "done"
        /\ ReturnedUrls(r) = <<"url2", "url1">>
        /\ generatedFileUrl[r] = "url2"
        /\ completed[r] # << >>

\* C26: an invocation is made only after the stream was exhausted and
\* processFunctionCalls was called, the stream is not consumed any further
\* from then on, and each invocation made is that of the slot after the one
\* executed last, starting with the first slot.
C26_ToolsAfterStream ==
    [][\A r \in Reqs :
          /\ pc[r] \in {"tools", "done"} => consumed'[r] = consumed[r]
          /\ pc[r] \notin {"tools", "done"} => executed[r] = << >>
          /\ executed'[r] # executed[r] =>
                /\ pc[r] = "tools"
                /\ executorCalls[r] = 1
                /\ SubSeq(executed'[r], 1, Len(executed[r])) = executed[r]
                /\ Len(executed'[r]) = Len(executed[r]) + 1
                /\ Last(executed'[r]).slot = Len(executed[r]) + 1
                /\ Last(executed'[r]).slot <= Len(functionCalls[r])]_vars

\* The deltas of two tool calls came with a text delta between them; the two
\* slots were executed in index order.
C26_Witness ==
    \E r \in Reqs :
        /\ pc[r] = "done"
        /\ Len(consumed[r]) = 3
        /\ consumed[r][1].tool_calls # << >>
        /\ consumed[r][2].hasContent
        /\ consumed[r][3].tool_calls # << >>
        /\ ExecutedSlots(r) = <<1, 2>>

\* ------------------------------------------------------------------ claims on concurrent requests
\* The messages without their timestamps.
Turn(msgs) == [i \in 1..Len(msgs) |-> [role |-> msgs[i].role, content |-> msgs[i].content]]

\* The turns request r stores when it runs alone with the stream and the tool
\* results it had: its user turn once it is past the key check, then its
\* assistant turn once it has completed.
TurnsAlone(r) ==
    (IF pc[r] \in {"off", "ready"} THEN << >>
     ELSE <<[role |-> "user", content |-> data[r].message]>>)
    \o (IF pc[r] = "done" /\ errors[r] = << >>
        THEN <<[role |-> "assistant",
                content |-> Concat(ContentFragments(consumed[r]))
                            \o Concat([i \in 1..Len(executed[r]) |->
                                           executed[r][i].result])]>>
        ELSE << >>)

\* C27: in every state of two requests on different threads, each thread
\* holds at most maxHistory messages, and they are the last maxHistory of the
\* turns its own request stores when it runs alone.
C27_DifferentKeysIsolated ==
    \A r \in Reqs :
        /\ Len(getHistory(data[r].thread_id)) <= maxHistory
        /\ Turn(getHistory(data[r].thread_id)) = LastN(TurnsAlone(r), maxHistory)

\* Both requests completed, and the second one stored its user turn after the
\* first one and its assistant turn before the first one's.
C27_Witness ==
    /\ \A r \in Reqs : pc[r] = "done" /\ completed[r] # << >>
    /\ maxHistory = DefaultMaxHistory
    /\ getHistory("t1")[1].timestamp = 0
    /\ getHistory("t2")[1].timestamp = 1
    /\ getHistory("t2")[2].timestamp = 2
    /\ getHistory("t1")[2].timestamp = 3

\* ------------------------------------------------------------------ claims on the stored sequence
\* C28: in every state the history of a key is the last min(n, maxHistory) of
\* the n messages appended to it since it was last cleared, in append order.
C28_HistoryIsSuffix ==
    \A t \in Threads :
        LET n == Len(log[t])
        IN  /\ Len(getHistory(t)) = Min(n, maxHistory)
            /\ getHistory(t) = SubSeq(log[t], n - Min(n, maxHistory) + 1, n)

\* A key was cleared and then received more messages than maxHistory >= 1.
C28_Witness ==
    \E t \in Threads :
        /\ t \in cleared
        /\ maxHistory >= 1
        /\ Len(log[t]) > maxHistory
        /\ log[t][1].timestamp > 0
        /\ Len(getHistory(t)) = maxHistory

\* ------------------------------------------------------------------ claims on the final text
\* C29: in a request that got past the key check and called completeResponse,
\* the text passed is the text fragments of the stream followed by the result
\* texts of the invocations in slot order, the assistant turn stored holds the
\* same text, no announcement or progress notification is part of it, and the
\* file passed is the URL processFunctionCalls returned (none when it
\* returned null).
C29_FinalText ==
    \A r \in Reqs :
        (PassedKeyCheck(r) /\ completed[r] # << >>) =>
            LET text == completed[r][1].text
                stored == Last(getHistory(data[r].thread_id))
            IN  /\ text = Concat(ContentFragments(consumed[r]))
                          \o Concat([i \in 1..Len(executed[r]) |->
                                         executed[r][i].result])
                /\ ExecutedSlots(r) = [i \in 1..Len(functionCalls[r]) |-> i]
                /\ stored.role = "assistant"
                /\ stored.content = text
                /\ \A j \in 1..Len(sink[r]) :
                      sink[r][j].kind \in {"calling", "params"} =>
                          ~Contains(text, sink[r][j].text)
                /\ completed[r][1].file =
                      IF generatedFileUrl[r] = "null" THEN "undefined"
                      ELSE generatedFileUrl[r]
                /\ generatedFileUrl[r] =
                      IF ReturnedUrls(r) = << >> THEN "null" ELSE ReturnedUrls(r)[1]

\* A text fragment and an image were received: the final text is the fragment
\* and the image result, and the image URL was passed on.
C29_Witness ==
    \E r \in Reqs :
        /\ completed[r] # << >>
        /\ completed[r][1].text = <<"h">> \o ImageResult("url1")
        /\ completed[r][1].file = "url1"
        /\ \E j \in 1..Len(sink[r]) : sink[r][j].kind = "params"

\* ------------------------------------------------------------------ claims on the eviction
RECURSIVE EvictWhile(_)
\* The specified eviction: elements leave the front while the length exceeds
\* maxHistory.
EvictWhile(a) == IF Len(a) > maxHistory THEN EvictWhile(Tail(a)) ELSE a

\* C30: the two stores start equal and clearHistory and getHistory are the
\* same in both, so they stay equal if every addMessage step leaves under its
\* key what the specified append leaves: the old history with the message
\* appended, evicted from the front while longer than maxHistory; the history
\* held is then always what the specified store holds for the messages
\* appended since the last clear.
C30_SingleShiftSuffices ==
    [][/\ \A t \in Threads, m \in Turns :
            addMessage(t, m[1], m[2]) =>
                getHistory(t)' = EvictWhile(Append(getHistory(t), Appended(m)))
       /\ \A t \in Threads : getHistory(t)' = EvictWhile(log'[t])]_vars

\* With maxHistory 1 a key was cleared, received three messages and was read.
C30_Witness ==
    \E t \in Threads :
        /\ maxHistory = 1
        /\ t \in cleared
        /\ Len(log[t]) = 3
        /\ held.ref = "store"
        /\ held.key = t
        /\ getHistory(t) = EvictWhile(log[t])

\* ------------------------------------------------------------------ claims on the announcements
\* The deltas that are the first of their index, in arrival order.
FirstOfIndex(deltas) ==
    LET mark == [j \in 1..Len(deltas) |->
                    [delta |-> deltas[j],
                     first |-> deltas[j].index \notin IndicesBefore(deltas, j)]]
        IsFirst(m) == m.first
        firsts == SelectSeq(mark, IsFirst)
    IN  [j \in 1..Len(firsts) |-> firsts[j].delta]

\* C31: while the stream is consumed and when it is exhausted, the
\* announcements forwarded are one per tool-call index seen, each naming the
\* tool of the first delta of its index, in the order the indices were first
\* seen, and no progress notification comes before the first announcement.
C31_OneAnnouncementPerIndex ==
    \A r \in Reqs :
        pc[r] \in {"streaming", "tools"} =>
            LET firsts == FirstOfIndex(FunctionDeltas(consumed[r]))
            IN  /\ Announced(sink[r]) = [j \in 1..Len(firsts) |-> firsts[j].name]
                /\ \A j \in 1..Len(sink[r]) :
                      sink[r][j].kind = "params" =>
                          \E k \in 1..(j - 1) : sink[r][k].kind = "calling"

\* ------------------------------------------------------------------ claims on a stream without text
\* Every chunk carries a usage report and neither text nor tool-call deltas.
UsageOnly(chunks) ==
    /\ chunks # << >>
    /\ \A j \in 1..Len(chunks) :
          /\ ~chunks[j].hasContent
          /\ chunks[j].tool_calls = << >>
          /\ chunks[j].usage # "null"

\* C32: once a stream of usage reports only is exhausted, the response text
\* is empty, no slot exists and none was executed, the executor's result is
\* empty with no attachment and the sink has received nothing, the usage is
\* the reported one, and the request ends with completeResponse called with
\* the empty text, that usage and no file, and without sendError.
C32_UsageOnlyStream ==
    \A r \in Reqs :
        (UsageOnly(consumed[r]) /\ executorCalls[r] > 0) =>
            /\ functionCalls[r] = << >>
            /\ executed[r] = << >>
            /\ combinedResult[r] = << >>
            /\ generatedFileUrl[r] = "null"
            /\ sink[r] = << >>
            /\ fullResponse[r] = << >>
            /\ usageInfo[r] = LastUsage(consumed[r])
            /\ errors[r] = << >>
            /\ pc[r] \in {"tools", "done"}
            /\ pc[r] = "done" =>
                  completed[r] = <<[text |-> << >>, usage |-> LastUsage(consumed[r]),
                                    file |-> "undefined"]>>

\* A request whose stream was one usage report has completed.
C32_Witness ==
    \E r \in Reqs :
        /\ UsageOnly(consumed[r])
        /\ Len(consumed[r]) = 1
        /\ pc[r] = "done"
        /\ completed[r] # << >>
        /\ completed[r][1].usage = "u1"

\* ------------------------------------------------------------------ claims on the loading markers
\* How many notes of a kind a sink has received.
CountKind(notes, kind) ==
    LET IsKind(n) == n.kind = kind
    IN  Len(SelectSeq(notes, IsKind))

C34_StoredMessagesUntouched ==
    [][/\ \A t \in Threads :
            LET old == getHistory(t)
                new == getHistory(t)'
            IN  \/ new = old
                \/ new = << >>
                \/ /\ log'[t] # log[t]
                   /\ \E k \in 0..Len(old) :
                         new = SubSeq(old, k + 1, Len(old)) \o <<Last(log'[t])>>
       /\ \A r \in Reqs :
            /\ pc[r] = "pdf" => conversations' = conversations
            /\ (pc[r] = "ready" /\ pc'[r] \in {"pdf", "create"}) =>
                  Last(getHistory(data[r].thread_id)') = UserTurn(r)]_vars

\* The last entry of a message list is not the plain message.
Enriched(r) ==
    /\ messages[r] # << >>
    /\ Last(messages[r]).content # data[r].message

\* The message list of a request carries the text of a PDF, and the thread
\* holds the user turn with the plain message.
C34_Witness ==
    \E r \in Reqs :
        /\ HasPDF(data[r])
        /\ Enriched(r)
        /\ Contains(Last(messages[r]).content, <<"<pdf-content>">>)
        /\ getHistory(data[r].thread_id) # << >>
        /\ Last(getHistory(data[r].thread_id)).content = data[r].message

\* ------------------------------------------------------------------ claims on two requests for one key
\* C35: in every state of two requests in flight on the same key, the thread
\* holds at most maxHistory messages, each request has appended nothing, its
\* user turn, or its user turn and then its assistant turn, and the history is
\* the end of the sequence of appends in the order they happened.
C35_SameKeyConsistent ==
    /\ \A t \in Threads :
          /\ Len(getHistory(t)) <= maxHistory
          /\ getHistory(t) = LastN(log[t], maxHistory)
    /\ \A r \in Reqs :
          appendedBy[r] \in {<< >>, <<"user">>, <<"user", "assistant">>}
    /\ Len(log["t1"]) = Len(appendedBy["r1"]) + Len(appendedBy["r2"])

\* Both requests completed on the one key; the appends were not serialized:
\* both user turns were stored before either assistant turn.
C35_Witness ==
    /\ \A r \in Reqs :
          /\ data[r].thread_id = "t1"
          /\ pc[r] = "done"
          /\ appendedBy[r] = <<"user", "assistant">>
    /\ maxHistory = DefaultMaxHistory
    /\ [j \in 1..4 |-> getHistory("t1")[j].role]
           = <<"user", "user", "assistant", "assistant">>

\* ------------------------------------------------------------------ claims on unknown functions
\* C36: the invocation of a slot whose name is not generate_image forwards
\* exactly one 'Processing function' notification, records the 'Unknown
\* function' text with no URL, reports no error and leaves the request among
\* its invocations; and a request whose list held such a slot ends with every
\* slot executed and completeResponse called.
C36_UnknownFunctionReturned ==
    [][\A r \in Reqs :
          /\ (/\ pc[r] = "tools"
              /\ toolIdx'[r] = toolIdx[r] + 1
              /\ functionCalls[r][toolIdx[r]].name # "generate_image") =>
                 /\ sink'[r] = sink[r] \o
                        <<Note("processing", <<functionCalls[r][toolIdx[r]].name>>)>>
                 /\ executed'[r] = Append(executed[r],
                        [slot |-> toolIdx[r], result |-> UnknownFunctionResult,
                         fileUrl |-> "null"])
                 /\ generatedFileUrl'[r] = generatedFileUrl[r]
                 /\ errors'[r] = << >>
                 /\ pc'[r] = "tools"
          /\ (pc[r] = "tools" /\ pc'[r] = "done") =>
                 /\ Len(executed'[r]) = Len(functionCalls[r])
                 /\ completed'[r] # << >>
                 /\ errors'[r] = << >>]_vars

\* A request completed after an unknown function and then generate_image
\* were invoked, and the image's URL is the attachment.
C36_Witness ==
    \E r \in Reqs :
        /\ pc[r] = "done"
        /\ completed[r] # << >>
        /\ Len(executed[r]) = 2
        /\ functionCalls[r][1].name = "other_tool"
        /\ executed[r][1].result = UnknownFunctionResult
        /\ functionCalls[r][2].name = "generate_image"
        /\ executed[r][2].fileUrl # "null"
        /\ completed[r][1].file = executed[r][2].fileUrl

\* ------------------------------------------------------------------ claims on the current message
\* The entries of a message list between the system prompt and the current
\* message.
HistoryEntries(msgs) == SubSeq(msgs, 2, Len(msgs) - 1)

\* C37: when a request with a key builds its message list, the entries
\* between the system prompt and the current message are messages the thread
\* held before the request stored its user turn, so that the current message
\* is sent once, as the last entry.
C37_CurrentMessageOnce ==
    [][\A r \in Reqs :
          (ProcessMessageStart(r) /\ ~Falsy(data[r].apiKey)) =>
              LET before == Turn(getHistory(data[r].thread_id))
                  ms == messages'[r]
              IN  /\ Last(ms) = [role |-> "user", content |-> data[r].message]
                  /\ \E k \in 0..Len(before) :
                        HistoryEntries(ms) = SubSeq(before, k + 1, Len(before))]_vars

\* ------------------------------------------------------------------ claims on a failing sink
\* What the step adds to the trace of r.
NewTrace(r) == SubSeq(trace'[r], Len(trace[r]) + 1, Len(trace'[r]))

\* C39: a step of the stream loop in which the sink rejects a text fragment
\* or an announcement ends the request with sendError, the sink error being
\* its only report, and completeResponse is never called; a step in which the
\* sink rejects progress notifications only, for deltas that introduce their
\* indices in order, reports nothing, leaves the request consuming its
\* stream, and the slots hold every fragment received.
C39_SinkFailureByKind ==
    [][\A r \in Reqs :
          /\ ("rejected.text" \in Range(NewTrace(r))
                 \/ "rejected.calling" \in Range(NewTrace(r))) =>
                /\ pc'[r] = "done"
                /\ Last(trace'[r]) = "sendError"
                /\ errors'[r] = <<"sink">>
                /\ completed'[r] = << >>
          /\ (/\ "rejected.params" \in Range(NewTrace(r))
              /\ "rejected.text" \notin Range(NewTrace(r))
              /\ "rejected.calling" \notin Range(NewTrace(r))
              /\ IntroducedInOrder(FunctionDeltas(consumed'[r]))) =>
                /\ pc'[r] = "streaming"
                /\ errors'[r] = << >>
                /\ consumed'[r] # consumed[r]
                /\ functionCalls'[r] = ExpectedSlots(FunctionDeltas(consumed'[r]))
          /\ errors[r] # << >> => (completed'[r] = << >> /\ pc'[r] = "done")]_vars

\* The sink rejected the progress notification of a slot whose text had
\* become {}; the stream was consumed to its end, the slot was executed with
\* that text and the request completed.
C39_Witness ==
    \E r \in Reqs :
        /\ "rejected.params" \in Range(trace[r])
        /\ pc[r] = "done"
        /\ completed[r] # << >>
        /\ errors[r] = << >>
        /\ Len(functionCalls[r]) = 1
        /\ functionCalls[r][1].arguments = <<"{", "}">>
        /\ Len(executed[r]) = 1
        /\ ProgressTexts(sink[r]) = << >>

====
